---- MODULE Spec2Model ----
(***************************************************************************)
(* Voice interaction orchestration of Sahaay AI.                           *)
(*                                                                         *)
(*  - VoiceInterfaceImpl (src/src/services/voiceInterface.ts 50-569): the  *)
(*    session registry `contexts`, the calls of convertSpeechToText that   *)
(*    are awaiting the speech-to-text service, and every public operation. *)
(*  - SpeechToTextServiceImpl.transcribe (same file, 865-896): the         *)
(*    cloud-first recognition cascade, one step per await.                 *)
(*                                                                         *)
(* last, run, flags, prior, lastReset and log are history           *)
(* variables: they record what the operations did and returned, so that    *)
(* properties of results and of sequences of calls are state predicates.   *)
(***************************************************************************)
EXTENDS Integers, Sequences, FiniteSets, Bags, TLC

VARIABLES
    config,      \* VoiceInterfaceImpl.config, fixed by the constructor
    contexts,    \* VoiceInterfaceImpl.contexts: Map<string, VoiceContext>
    pending,     \* bag of convertSpeechToText calls awaiting sttService.transcribe
    now,         \* the clock read by new Date(), in minutes
    last,        \* history: the operation that completed last, and its outcome
    run,         \* history: per session, failed speechToText calls since the last reset event
    flags,       \* history: per session, fallback-eligible errors raised in the current run
    prior,       \* history: per session, fallback-eligible errors raised in earlier runs
    lastReset,   \* history: per session, the reset event that started the current run
    log,         \* history: per session, every record appended to conversationHistory
    script,      \* the workload of the scripted specification (SpecHist)
    pos,         \* the next operation of script
    stt,         \* SpeechToTextServiceImpl: configuration and the request in progress
    tts,         \* TextToSpeechServiceImpl: configuration and the request in progress
    audio        \* AudioProcessor: configuration, a payload and what was computed of it

vars == <<config, contexts, pending, now, last, run, flags, prior,
          lastReset, log, script, pos, stt, tts, audio>>

orchVars == <<config, contexts, pending, now, last, run, flags, prior,
              lastReset, log>>

(***************************************************************************)
(* Bounds of the model and constants of the program.                       *)
(***************************************************************************)
MaxLog == 2
MaxSessionLog == 4
MaxRunLog == 6
MaxPending == 1
MaxLangLog == 3
MaxClockLog == 2
MaxSuggestLog == 3
MaxIsolationLog == 3
MaxRaceLog == 13
MaxRacePending == 2
MaxLiveLog == 4
MaxSpeakLog == 3
MaxOverlapLog == 7
MaxOverlapPending == 3
MaxValidations == 2
MaxTime == 31
ScriptLen == 12

HistoryCap == 10
MaxFailuresBeforeFallback == 2
ContextTimeoutMinutes == 30
MinAudioSize == 1024

Sessions == {"s1", "s2"}
Langs == {"hi", "en"}
Modes == {"voice", "text"}
DefaultLanguage == "hi"
NoLang == "none"
NoSession == "none"
NoMode == "none"
TickSteps == {15, 16}

(* Partial<VoiceInterfaceConfig>: the default configuration and the        *)
(* configurations that turn one switch off.                                *)
DefaultConfig ==
    [enableVoiceInput |-> TRUE, enableVoiceOutput |-> TRUE, fallbackToText |-> TRUE,
     preserveContext |-> TRUE]

Configs ==
    { DefaultConfig,
      [DefaultConfig EXCEPT !.enableVoiceInput = FALSE],
      [DefaultConfig EXCEPT !.enableVoiceOutput = FALSE],
      [DefaultConfig EXCEPT !.fallbackToText = FALSE],
      [DefaultConfig EXCEPT !.preserveContext = FALSE] }

(* Text inputs, as sequences of characters.                                *)
Texts == { <<>>, <<" ">>, <<"a">>, <<" ", "a", " ">> }

RECURSIVE TrimLeft(_)
TrimLeft(t) ==
    IF t # <<>> /\ Head(t) = " " THEN TrimLeft(Tail(t)) ELSE t

RECURSIVE TrimRight(_)
TrimRight(t) ==
    IF t # <<>> /\ t[Len(t)] = " " THEN TrimRight(SubSeq(t, 1, Len(t) - 1)) ELSE t

Trim(t) == TrimRight(TrimLeft(t))

(***************************************************************************)
(* Context records and the pure parts of the handlers.                     *)
(***************************************************************************)
HasContext(sid) == sid \in DOMAIN contexts

MapSet(m, k, v) == [x \in (DOMAIN m) \cup {k} |-> IF x = k THEN v ELSE m[x]]

MapDelete(m, k) == [x \in (DOMAIN m) \ {k} |-> m[x]]

HistoryEntry(t, mode, ok, lang) ==
    [timestamp |-> t, inputMode |-> mode, success |-> ok, language |-> lang]

(* Mutant of SliceLast: truncation from the back, slice(0, 10).           *)
SliceFirst(h) ==
    IF Len(h) > HistoryCap THEN SubSeq(h, 1, HistoryCap) ELSE h

(* Array.prototype.slice(-10)                                              *)
SliceLast(h) ==
    IF Len(h) > HistoryCap THEN SubSeq(h, Len(h) - HistoryCap + 1, Len(h)) ELSE h

(* conversationHistory.slice().reverse().find(h => h.success)?.inputMode   *)
RECURSIVE LastSuccessfulMode(_)
LastSuccessfulMode(h) ==
    IF h = <<>> THEN NoMode
    ELSE IF h[Len(h)].success THEN h[Len(h)].inputMode
    ELSE LastSuccessfulMode(SubSeq(h, 1, Len(h) - 1))

NoSuggestion == [present |-> FALSE, shouldSuggestFallback |-> FALSE,
                 failureCount |-> 0, lastSuccessfulMode |-> NoMode]

Suggestion(should, ctx) ==
    [present |-> TRUE, shouldSuggestFallback |-> should,
     failureCount |-> ctx.failureCount,
     lastSuccessfulMode |->
        IF should THEN LastSuccessfulMode(ctx.conversationHistory) ELSE NoMode]

(* Mutant of SetContextValue: the failures of the session are forgotten.   *)
SetContextValueForgets(ctxs, sid, lang, mode, t) ==
    LET has == sid \in DOMAIN ctxs
    IN  [sessionId |-> sid,
         currentLanguage |-> lang,
         inputMode |-> mode,
         lastInteraction |-> t,
         failureCount |-> 0,
         totalInteractions |-> (IF has THEN ctxs[sid].totalInteractions ELSE 0) + 1,
         fallbackSuggested |-> FALSE,
         conversationHistory |->
            SliceLast((IF has THEN ctxs[sid].conversationHistory ELSE <<>>)
                      \o <<HistoryEntry(t, mode, TRUE, lang)>>)]

(* The value setContext stores for sid.                                    *)
SetContextValue(ctxs, sid, lang, mode, t) ==
    LET has == sid \in DOMAIN ctxs
    IN  [sessionId |-> sid,
         currentLanguage |-> lang,
         inputMode |-> mode,
         lastInteraction |-> t,
         failureCount |-> IF has THEN ctxs[sid].failureCount ELSE 0,
         totalInteractions |-> (IF has THEN ctxs[sid].totalInteractions ELSE 0) + 1,
         fallbackSuggested |-> IF has THEN ctxs[sid].fallbackSuggested ELSE FALSE,
         conversationHistory |->
            SliceLast((IF has THEN ctxs[sid].conversationHistory ELSE <<>>)
                      \o <<HistoryEntry(t, mode, TRUE, lang)>>)]

(* Mutant of SwitchedContext: the mode switch forgets to clear the         *)
(* fallbackSuggested flag.                                                 *)
SwitchedContextKeepsSuggested(ctx, newMode, t) ==
    [ctx EXCEPT !.inputMode = newMode,
                !.lastInteraction = t,
                !.failureCount = 0,
                !.conversationHistory =
                    SliceLast(Append(@, HistoryEntry(t, newMode, TRUE, ctx.currentLanguage)))]

(* The context after switchInputMode found it.                             *)
SwitchedContext(ctx, newMode, t) ==
    [ctx EXCEPT !.inputMode = newMode,
                !.lastInteraction = t,
                !.failureCount = 0,
                !.fallbackSuggested = FALSE,
                !.conversationHistory =
                    SliceLast(Append(@, HistoryEntry(t, newMode, TRUE, ctx.currentLanguage)))]

(* Mutant of SuccessContext: the success update forgets to reset the       *)
(* failure counter.                                                        *)
SuccessContextKeepsFailures(ctx, lang, mode, t) ==
    [ctx EXCEPT !.currentLanguage = lang,
                !.lastInteraction = t,
                !.totalInteractions = @ + 1,
                !.conversationHistory =
                    SliceLast(Append(@, HistoryEntry(t, mode, TRUE, lang)))]

(* The context after updateContextOnSuccess found it.                      *)
SuccessContext(ctx, lang, mode, t) ==
    [ctx EXCEPT !.currentLanguage = lang,
                !.lastInteraction = t,
                !.failureCount = 0,
                !.totalInteractions = @ + 1,
                !.conversationHistory =
                    SliceLast(Append(@, HistoryEntry(t, mode, TRUE, lang)))]

(* updateContextOnFailure, first half: the counters and the history.       *)
FailureContext(ctx, mode, t) ==
    [ctx EXCEPT !.failureCount = @ + 1,
                !.lastInteraction = t,
                !.totalInteractions = @ + 1,
                !.conversationHistory =
                    SliceLast(Append(@, HistoryEntry(t, mode, FALSE, ctx.currentLanguage)))]

(* Mutant of ShouldSuggestOnFailure: a recommendation already given is     *)
(* given again.                                                            *)
ShouldSuggestOnFailureAgain(ctx, mode) ==
    /\ config.fallbackToText
    /\ ctx.failureCount >= MaxFailuresBeforeFallback
    /\ mode = "voice"

(* updateContextOnFailure, second half: the test on the updated context.   *)
ShouldSuggestOnFailure(ctx, mode) ==
    /\ config.fallbackToText
    /\ ctx.failureCount >= MaxFailuresBeforeFallback
    /\ mode = "voice"
    /\ ~ctx.fallbackSuggested

(* getFallbackSuggestion's test.                                           *)
ShouldSuggestFallback(ctx) ==
    /\ config.fallbackToText
    /\ ctx.failureCount >= MaxFailuresBeforeFallback
    /\ ctx.inputMode = "voice"
    /\ ~ctx.fallbackSuggested

(* What the handlers observed before they acted.                           *)
Pre(sid) ==
    IF HasContext(sid)
    THEN [exists |-> TRUE,
          failureCount |-> contexts[sid].failureCount,
          fallbackSuggested |-> contexts[sid].fallbackSuggested,
          inputMode |-> contexts[sid].inputMode,
          totalInteractions |-> contexts[sid].totalInteractions]
    ELSE [exists |-> FALSE, failureCount |-> 0, fallbackSuggested |-> FALSE,
          inputMode |-> NoMode, totalInteractions |-> 0]

(* The arguments of processTextInput, kept with its outcome.               *)
NoInput == [text |-> <<>>, language |-> NoLang]

Outcome(op, sid, res, lang, mode, text, count, sug) ==
    [op |-> op, sid |-> sid, res |-> res, lang |-> lang, mode |-> mode,
     text |-> text, count |-> count, sug |-> sug, pre |-> Pre(sid), input |-> NoInput,
     known |-> FALSE]

NoOutcome == Outcome("none", NoSession, "none", NoLang, NoMode, <<>>, 0, NoSuggestion)

(* The history variables at a reset event of session sid.                  *)
ResetRun(sid, event) ==
    /\ run' = [run EXCEPT ![sid] = 0]
    /\ prior' = [prior EXCEPT ![sid] = prior[sid] + flags[sid]]
    /\ flags' = [flags EXCEPT ![sid] = 0]
    /\ lastReset' = [lastReset EXCEPT ![sid] = event]

(* The history variables when the contexts of sids are created or removed. *)
FreshRun(sids, event) ==
    /\ run' = [s \in Sessions |-> IF s \in sids THEN 0 ELSE run[s]]
    /\ prior' = [s \in Sessions |-> IF s \in sids THEN 0 ELSE prior[s]]
    /\ flags' = [s \in Sessions |-> IF s \in sids THEN 0 ELSE flags[s]]
    /\ lastReset' = [s \in Sessions |-> IF s \in sids THEN event ELSE lastReset[s]]

KeepRun == UNCHANGED <<run, flags, prior, lastReset>>

Logged(sid, entry) == log' = [log EXCEPT ![sid] = Append(@, entry)]

(***************************************************************************)
(* SpeechToTextServiceImpl: the state of the service and the pure parts    *)
(* of transcribe.  Confidences are in hundredths.                          *)
(***************************************************************************)
Thresholds == {80, 95}
Confidences == {50, 80, 92, 96}

NoOut == [kind |-> "none", backend |-> "none", confidence |-> 0,
          detectedLanguage |-> NoLang, message |-> "none"]

(* The TranscriptionResult a backend returns: detectedLanguage is          *)
(* `language || await this.detectLanguage(...)`.                           *)
BackendResult(backend, conf, language, guess) ==
    [kind |-> "result", backend |-> backend, confidence |-> conf,
     detectedLanguage |-> IF language # NoLang THEN language ELSE guess,
     message |-> "none"]

BackendError(backend, message) ==
    [kind |-> "error", backend |-> backend, confidence |-> 0,
     detectedLanguage |-> NoLang, message |-> message]

CloudFailed == BackendError("cloud", "Cloud speech recognition failed")
WhisperFailed == BackendError("whisper", "Offline speech recognition failed")
NoServiceAvailable == BackendError("none", "No STT service available")

(* WhisperSTTService.supportedLanguages                                    *)
WhisperSupportedLanguages == {"en", "hi", "ta", "te", "bn"}

(* new SpeechToTextServiceImpl({fallbackToOffline, confidenceThreshold})   *)
SttService(fallbackToOffline, threshold) ==
    [pc |-> "idle", fallbackToOffline |-> fallbackToOffline,
     confidenceThreshold |-> threshold, language |-> NoLang,
     cloudUp |-> FALSE, whisperUp |-> FALSE,
     cloudOut |-> NoOut, whisperOut |-> NoOut, events |-> <<>>, result |-> NoOut]

SttIdle == SttService(TRUE, 80)

(* transcribe is entered and calls cloudService.isAvailable()              *)
StartTranscribe(st, language, cUp, wUp) ==
    [st EXCEPT !.pc = "cloudIsAvailable", !.language = language,
               !.cloudUp = cUp, !.whisperUp = wUp,
               !.cloudOut = NoOut, !.whisperOut = NoOut,
               !.events = <<"cloud.isAvailable">>, !.result = NoOut]

(* transcribe returns or throws out                                        *)
Finish(st, out) == [st EXCEPT !.pc = "done", !.result = out]

(* `if (this.config.fallbackToOffline && await whisperService.isAvailable())` *)
(* is reached: the offline backend is consulted only if it is enabled;     *)
(* otherwise `throw new Error('No STT service available')`.                *)
OfflineFallback(st) ==
    IF st.fallbackToOffline
    THEN [st EXCEPT !.pc = "whisperIsAvailable", !.events = Append(@, "whisper.isAvailable")]
    ELSE Finish(st, NoServiceAvailable)

(* Mutant of OnCloudAvailable: both backends' transcriptions are started   *)
(* together when the cloud backend is available.                           *)
OnCloudAvailableStartsBoth(st) ==
    IF st.cloudUp
    THEN [st EXCEPT !.pc = "cloudTranscribe",
                    !.events = @ \o <<"cloud.transcribe", "whisper.transcribe">>]
    ELSE OfflineFallback(st)

(* `if (await this.cloudService.isAvailable())` is decided                 *)
OnCloudAvailable(st) ==
    IF st.cloudUp
    THEN [st EXCEPT !.pc = "cloudTranscribe", !.events = Append(@, "cloud.transcribe")]
    ELSE OfflineFallback(st)

(* Mutant of AcceptCloudResult: a strict comparison.                       *)
AcceptCloudResultStrictly(st, r) == r.confidence > st.confidenceThreshold

(* `result.confidence >= this.config.confidenceThreshold`                  *)
AcceptCloudResult(st, r) == r.confidence >= st.confidenceThreshold

(* Mutant of OnCloudResult: the cloud result is returned whatever its      *)
(* confidence.                                                             *)
OnCloudResultAlwaysReturns(st, r) ==
    Finish([st EXCEPT !.cloudOut = r, !.events = Append(@, "cloud.transcribe.end")], r)

(* cloudService.transcribe resolved with r                                 *)
OnCloudResult(st, r) ==
    LET back == [st EXCEPT !.cloudOut = r, !.events = Append(@, "cloud.transcribe.end")]
    IN  IF AcceptCloudResult(st, r) THEN Finish(back, r) ELSE OfflineFallback(back)

(* cloudService.transcribe rejected: the catch of transcribe logs the      *)
(* error and throws it again.                                              *)
OnCloudError(st) ==
    Finish([st EXCEPT !.cloudOut = CloudFailed, !.events = Append(@, "cloud.transcribe.end")],
           CloudFailed)

(* Mutant of OnWhisperAvailable: the offline backend is invoked without    *)
(* regard to its availability.                                             *)
OnWhisperAvailableIgnored(st) ==
    [st EXCEPT !.pc = "whisperTranscribe", !.events = Append(@, "whisper.transcribe")]

(* whisperService.isAvailable() is decided                                 *)
OnWhisperAvailable(st) ==
    IF st.whisperUp
    THEN [st EXCEPT !.pc = "whisperTranscribe", !.events = Append(@, "whisper.transcribe")]
    ELSE Finish(st, NoServiceAvailable)

(* whisperService.transcribe resolved with r                               *)
OnWhisperResult(st, r) ==
    Finish([st EXCEPT !.whisperOut = r, !.events = Append(@, "whisper.transcribe.end")], r)

(* whisperService.transcribe rejected                                      *)
OnWhisperError(st) ==
    Finish([st EXCEPT !.whisperOut = WhisperFailed,
                      !.events = Append(@, "whisper.transcribe.end")], WhisperFailed)

(***************************************************************************)
(* TextToSpeechServiceImpl: the state of the service and the pure parts    *)
(* of synthesize.  localEngine and cloudProvider are the environment of    *)
(* the cascade: what cloudProvider.isAvailable answers and whether each    *)
(* synthesize resolves or rejects is chosen at each step.                  *)
(***************************************************************************)

(* TextToSpeechServiceImpl.supportedLanguages                              *)
TtsSupportedLanguages == {"en", "hi", "ta", "te", "bn"}

(* LocalTTSEngineImpl.supportedLanguages                                   *)
LocalSupportedLanguages == {"en", "hi"}

(* The languages synthesize is called with: two the local engine          *)
(* supports, one only the service supports, one nobody supports.           *)
TtsLangs == {"hi", "en", "ta", "fr"}

TtsNoOut == [kind |-> "none", backend |-> "none", message |-> "none", wrapped |-> FALSE]

(* The AudioBlob a backend resolved with, after postProcessAudio.          *)
TtsAudio(backend) ==
    [kind |-> "audio", backend |-> backend, message |-> "none", wrapped |-> FALSE]

(* An error synthesize throws; wrapped when it leaves through the catch    *)
(* block as 'Text-to-speech synthesis failed: ' + message.                 *)
TtsError(message, wrapped) ==
    [kind |-> "error", backend |-> "none", message |-> message, wrapped |-> wrapped]

TextCannotBeEmpty == TtsError("Text cannot be empty", FALSE)
LanguageNotSupported == TtsError("Language is not supported", FALSE)
NoEngineAvailable == TtsError("No TTS engine available for language", TRUE)
LocalSynthesisFailed == TtsError("local synthesize rejected", TRUE)
CloudSynthesisFailed == TtsError("cloud synthesize rejected", TRUE)

(* new TextToSpeechServiceImpl({preferLocalTTS, enableCloudTTS})           *)
TtsService(preferLocalTTS, enableCloudTTS) ==
    [pc |-> "idle", preferLocalTTS |-> preferLocalTTS, enableCloudTTS |-> enableCloudTTS,
     text |-> <<>>, language |-> NoLang, cloudUp |-> "unasked", rejected |-> "none",
     events |-> <<>>, result |-> TtsNoOut]

TtsIdle == TtsService(TRUE, TRUE)

(* synthesize returns or throws out                                        *)
SynthFinish(t, out) == [t EXCEPT !.pc = "done", !.result = out]

(* Mutant of SynthLocalFallback: without preference the local engine is    *)
(* not tried.                                                              *)
SynthLocalFallbackNever(t) == SynthFinish(t, NoEngineAvailable)

(* `if (this.localEngine.isLanguageSupported(language))`, the final        *)
(* fallback, and `throw new Error('No TTS engine available ...')`          *)
SynthLocalFallback(t) ==
    LET asked == [t EXCEPT !.events = Append(@, "local.isLanguageSupported")]
    IN  IF t.language \in LocalSupportedLanguages
        THEN [asked EXCEPT !.pc = "localFallback", !.events = Append(@, "local.synthesize")]
        ELSE SynthFinish(asked, NoEngineAvailable)

(* `if (this.config.enableCloudTTS && await this.cloudProvider.isAvailable())` *)
(* is reached                                                              *)
SynthCloudStage(t) ==
    IF t.enableCloudTTS
    THEN [t EXCEPT !.pc = "cloudIsAvailable", !.events = Append(@, "cloud.isAvailable")]
    ELSE SynthLocalFallback(t)

(* `if (this.config.preferLocalTTS && this.localEngine.isLanguageSupported(language))` *)
SynthLocalStage(t) ==
    IF t.preferLocalTTS
    THEN LET asked == [t EXCEPT !.events = Append(@, "local.isLanguageSupported")]
         IN  IF t.language \in LocalSupportedLanguages
             THEN [asked EXCEPT !.pc = "localSynthesize",
                                !.events = Append(@, "local.synthesize")]
             ELSE SynthCloudStage(asked)
    ELSE SynthCloudStage(t)

(* Mutant of SynthStart: the language is left to the engines to refuse.    *)
SynthStartLeavesLanguageToEngines(t, text, language) ==
    LET called == [t EXCEPT !.text = text, !.language = language,
                            !.cloudUp = "unasked", !.rejected = "none",
                            !.events = <<>>, !.result = TtsNoOut]
    IN  IF Len(Trim(text)) = 0 THEN SynthFinish(called, TextCannotBeEmpty)
        ELSE SynthLocalStage(called)

(* synthesize is entered: the two validations, then the cascade up to its  *)
(* first await.                                                            *)
SynthStart(t, text, language) ==
    LET called == [t EXCEPT !.text = text, !.language = language,
                            !.cloudUp = "unasked", !.rejected = "none",
                            !.events = <<>>, !.result = TtsNoOut]
    IN  IF Len(Trim(text)) = 0 THEN SynthFinish(called, TextCannotBeEmpty)
        ELSE IF language \notin TtsSupportedLanguages
        THEN SynthFinish(called, LanguageNotSupported)
        ELSE SynthLocalStage(called)

(* cloudProvider.isAvailable() answered                                    *)
SynthOnCloudAvailable(t, up) ==
    IF up
    THEN [t EXCEPT !.pc = "cloudSynthesize", !.cloudUp = "up",
                   !.events = Append(@, "cloud.synthesize")]
    ELSE SynthLocalFallback([t EXCEPT !.cloudUp = "down"])

(* a backend's synthesize resolved: `return await this.postProcessAudio(result)` *)
SynthOnResult(t, backend) == SynthFinish(t, TtsAudio(backend))

(* a backend's synthesize rejected: the catch block throws the wrapped     *)
(* error                                                                   *)
SynthOnError(t, backend) ==
    SynthFinish([t EXCEPT !.rejected = backend],
                IF backend = "local" THEN LocalSynthesisFailed ELSE CloudSynthesisFailed)

(***************************************************************************)
(* AudioProcessor: validateAudio and compressAudio on a payload, a Blob    *)
(* known by its size in bytes and its media type.  A media type is the     *)
(* sequence of its parts around the slash: <<"audio", "wav">> is           *)
(* 'audio/wav', <<"audio">> is 'audio' and <<>> is the empty type.         *)
(***************************************************************************)

(* AudioProcessorConfig.maxFileSize, by default                            *)
DefaultMaxFileSize == 5 * 1024 * 1024

(* COMPRESSION_SETTINGS[level].bitrate, in kbps                            *)
Bitrate == <<8, 16, 24, 32, 48, 64, 96, 128, 192, 320>>

(* COMPRESSION_SETTINGS[level].quality, in tenths                          *)
QualityTenths == <<1, 2, 3, 4, 5, 6, 7, 8, 9, 10>>

CompressionLevels == 1..10

(* supportedTypes of isSupportedAudioType                                  *)
SupportedAudioTypes ==
    { <<"audio", "wav">>, <<"audio", "mpeg">>, <<"audio", "mp3">>, <<"audio", "ogg">>,
      <<"audio", "webm">>, <<"audio", "x-wav">>, <<"audio", "x-mpeg">> }

(* Mutant of IsSupportedAudioType: only the listed types are supported.    *)
IsSupportedAudioTypeListed(mimeType) == mimeType \in SupportedAudioTypes

(* supportedTypes.includes(mimeType) || mimeType.startsWith('audio/')      *)
IsSupportedAudioType(mimeType) ==
    \/ mimeType \in SupportedAudioTypes
    \/ Len(mimeType) = 2 /\ mimeType[1] = "audio"

(* validateAudio(audioBlob): one error per test that fails, in the order   *)
(* of the tests.                                                           *)
ValidateAudio(blob, maxFileSize) ==
    LET errors == (IF blob.size > maxFileSize THEN <<"too large">> ELSE <<>>)
                  \o (IF blob.size < MinAudioSize THEN <<"too small">> ELSE <<>>)
                  \o (IF ~IsSupportedAudioType(blob.type) THEN <<"unsupported type">> ELSE <<>>)
    IN  [isValid |-> Len(errors) = 0, errors |-> errors]

(* The greatest power of two that is at most v, for v >= 1.                *)
RECURSIVE Pow2Floor(_)
Pow2Floor(v) == IF v < 2 THEN 1 ELSE 2 * Pow2Floor(v \div 2)

(* Math.floor(byteLength * settings.quality) in IEEE 754 double            *)
(* arithmetic.  Of the ten qualities only 0.7 multiplies to less than the  *)
(* exact product where that is an integer: its double lies below 7/10,     *)
(* and the product is rounded below the integer in the upper quarter of    *)
(* each binade.                                                            *)
FloorOfScaled(byteLength, level) ==
    LET exact == (byteLength * QualityTenths[level]) \div 10
    IN  IF /\ QualityTenths[level] = 7
           /\ byteLength % 10 = 0
           /\ exact > 0
           /\ 4 * exact > 7 * Pow2Floor(exact)
        THEN exact - 1
        ELSE exact

(* getTargetSize(quality): (bitrate * 1000 * 10) / 8                       *)
GetTargetSize(level) == (Bitrate[level] * 1000 * 10) \div 8

(* Mutant of CompressAudio: a payload exactly at the target size is        *)
(* compressed all the same.                                                *)
CompressAudioAtTarget(blob, level, enableCompression, readOk) ==
    IF ~enableCompression THEN blob
    ELSE IF blob.size < GetTargetSize(level) THEN blob
    ELSE IF ~readOk THEN blob
    ELSE [size |-> FloorOfScaled(blob.size, level), type |-> <<"audio", "webm">>]

(* Mutant of CompressAudio: the table of qualities is read from its other  *)
(* end.                                                                    *)
CompressAudioReversedQuality(blob, level, enableCompression, readOk) ==
    IF ~enableCompression THEN blob
    ELSE IF blob.size <= GetTargetSize(level) THEN blob
    ELSE IF ~readOk THEN blob
    ELSE [size |-> FloorOfScaled(blob.size, 11 - level), type |-> <<"audio", "webm">>]

(* compressAudio(audioBlob, quality): the Blob it resolves with.  readOk   *)
(* is whether blobToArrayBuffer resolved; when it rejects the catch block  *)
(* returns the original.                                                   *)
CompressAudio(blob, level, enableCompression, readOk) ==
    IF ~enableCompression THEN blob
    ELSE IF blob.size <= GetTargetSize(level) THEN blob
    ELSE IF ~readOk THEN blob
    ELSE [size |-> FloorOfScaled(blob.size, level), type |-> <<"audio", "webm">>]

NoBlob == [size |-> 0, type |-> <<>>]

(* No call of compressAudio yet.                                           *)
NoCompression == [via |-> "none", level |-> 0, readOk |-> TRUE, out |-> NoBlob]

NetworkQualities == {"poor", "fair", "good"}

(* Mutant of BandwidthLevel: the lightest compression for the poorest      *)
(* network.                                                                *)
BandwidthLevelLightestForPoor(networkQuality) ==
    CASE networkQuality = "poor" -> 6
      [] networkQuality = "fair" -> 4
      [] networkQuality = "good" -> 2

(* optimizeForBandwidth: the compression level chosen for a network        *)
(* quality.                                                                *)
BandwidthLevel(networkQuality) ==
    CASE networkQuality = "poor" -> 2
      [] networkQuality = "fair" -> 4
      [] networkQuality = "good" -> 6

(* new AudioProcessor({maxFileSize, enableCompression}) and a payload      *)
AudioProcessorState(maxFileSize, enableCompression, blob) ==
    [maxFileSize |-> maxFileSize, enableCompression |-> enableCompression, blob |-> blob,
     validations |-> <<>>, via |-> "none", level |-> 0, readOk |-> TRUE, out |-> NoBlob,
     prev |-> NoCompression]

AudioIdle == AudioProcessorState(DefaultMaxFileSize, TRUE, NoBlob)

(***************************************************************************)
(* VoiceInterfaceImpl: one action per public operation.  The calls of      *)
(* convertSpeechToText suspend at `await this.sttService.transcribe`; the  *)
(* service is the SpeechToTextService handed to the constructor, which     *)
(* resolves or rejects each call.                                          *)
(***************************************************************************)

(* setContext(sessionId, language, inputMode)                              *)
SetContext(sid, lang, mode) ==
    /\ last' = Outcome("setContext", sid, "void", lang, mode, <<>>, 0, NoSuggestion)
    /\ IF ~config.preserveContext
       THEN UNCHANGED <<contexts, run, flags, prior, lastReset, log>>
       ELSE /\ contexts' = MapSet(contexts, sid, SetContextValue(contexts, sid, lang, mode, now))
            /\ IF HasContext(sid)
               THEN KeepRun /\ Logged(sid, HistoryEntry(now, mode, TRUE, lang))
               ELSE /\ FreshRun({sid}, "created")
                    /\ log' = [log EXCEPT ![sid] = <<HistoryEntry(now, mode, TRUE, lang)>>]
    /\ UNCHANGED <<config, pending, now>>

(* clearContext(sessionId)                                                 *)
ClearContext(sid) ==
    /\ last' = Outcome("clearContext", sid, "void", NoLang, NoMode, <<>>, 0, NoSuggestion)
    /\ contexts' = MapDelete(contexts, sid)
    /\ FreshRun({sid}, "none")
    /\ log' = [log EXCEPT ![sid] = <<>>]
    /\ UNCHANGED <<config, pending, now>>

(* Mutant of SwitchInputMode: a session without context gets one.          *)
SwitchInputModeCreates(sid, newMode) ==
    /\ last' = Outcome("switchInputMode", sid, "true", NoLang, newMode, <<>>, 0, NoSuggestion)
    /\ contexts' = MapSet(contexts, sid,
                          SetContextValue(contexts, sid, DefaultLanguage, newMode, now))
    /\ Logged(sid, HistoryEntry(now, newMode, TRUE, DefaultLanguage))
    /\ UNCHANGED <<config, pending, now, run, flags, prior, lastReset>>

(* switchInputMode(sessionId, newMode, reason?)                            *)
SwitchInputMode(sid, newMode) ==
    /\ IF ~HasContext(sid)
       THEN /\ last' = Outcome("switchInputMode", sid, "false", NoLang, newMode, <<>>, 0, NoSuggestion)
            /\ UNCHANGED <<contexts, run, flags, prior, lastReset, log>>
       ELSE /\ contexts' = [contexts EXCEPT ![sid] = SwitchedContext(@, newMode, now)]
            /\ last' = Outcome("switchInputMode", sid, "true", NoLang, newMode, <<>>, 0, NoSuggestion)
            /\ ResetRun(sid, "switch")
            /\ Logged(sid, HistoryEntry(now, newMode, TRUE, contexts[sid].currentLanguage))
    /\ UNCHANGED <<config, pending, now>>

(* getContext(sessionId) returns the stored object itself, and its caller  *)
(* writes failureCount in it.                                              *)
GetContextWrite(sid, n) ==
    /\ HasContext(sid)
    /\ last' = Outcome("getContext", sid, "context", NoLang, NoMode, <<>>, n, NoSuggestion)
    /\ contexts' = [contexts EXCEPT ![sid].failureCount = n]
    /\ UNCHANGED <<config, pending, now, run, flags, prior, lastReset, log>>

(* Mutant of GetFallbackSuggestion: a suggestion that is made is marked    *)
(* as made.                                                                *)
GetFallbackSuggestionMarks(sid) ==
    /\ last' = IF ~HasContext(sid)
               THEN Outcome("getFallbackSuggestion", sid, "null", NoLang, NoMode, <<>>, 0, NoSuggestion)
               ELSE Outcome("getFallbackSuggestion", sid, "suggestion", NoLang, NoMode, <<>>, 0,
                            Suggestion(ShouldSuggestFallback(contexts[sid]), contexts[sid]))
    /\ contexts' = IF HasContext(sid) /\ ShouldSuggestFallback(contexts[sid])
                   THEN [contexts EXCEPT ![sid].fallbackSuggested = TRUE]
                   ELSE contexts
    /\ UNCHANGED <<config, pending, now, run, flags, prior, lastReset, log>>

(* getFallbackSuggestion(sessionId)                                        *)
GetFallbackSuggestion(sid) ==
    /\ last' = IF ~HasContext(sid)
               THEN Outcome("getFallbackSuggestion", sid, "null", NoLang, NoMode, <<>>, 0, NoSuggestion)
               ELSE Outcome("getFallbackSuggestion", sid, "suggestion", NoLang, NoMode, <<>>, 0,
                            Suggestion(ShouldSuggestFallback(contexts[sid]), contexts[sid]))
    /\ UNCHANGED <<config, contexts, pending, now, run, flags, prior, lastReset, log>>

(* markFallbackSuggested(sessionId)                                        *)
MarkFallbackSuggested(sid) ==
    /\ last' = Outcome("markFallbackSuggested", sid, "void", NoLang, NoMode, <<>>, 0, NoSuggestion)
    /\ contexts' = IF HasContext(sid)
                   THEN [contexts EXCEPT ![sid].fallbackSuggested = TRUE]
                   ELSE contexts
    /\ UNCHANGED <<config, pending, now, run, flags, prior, lastReset, log>>

(* Mutant of Expired: a context is stale from the timeout on.              *)
ExpiredAtTimeout(ctxs, t) ==
    { s \in DOMAIN ctxs : t - ctxs[s].lastInteraction >= ContextTimeoutMinutes }

(* The sessions cleanupExpiredContexts deletes.                            *)
Expired(ctxs, t) ==
    { s \in DOMAIN ctxs : t - ctxs[s].lastInteraction > ContextTimeoutMinutes }

(* cleanupExpiredContexts()                                                *)
CleanupExpiredContexts ==
    LET gone == Expired(contexts, now)
    IN  /\ last' = Outcome("cleanupExpiredContexts", NoSession, "count", NoLang, NoMode, <<>>,
                           Cardinality(gone), NoSuggestion)
        /\ contexts' = [s \in (DOMAIN contexts) \ gone |-> contexts[s]]
        /\ FreshRun(gone, "none")
        /\ log' = [s \in Sessions |-> IF s \in gone THEN <<>> ELSE log[s]]
        /\ UNCHANGED <<config, pending, now>>

(* detectLanguage(audioBlob): SpeechToTextServiceImpl.detectLanguage       *)
(* answers 'hi' on each of its paths (the cloud stub, the offline stub,    *)
(* the default and the catch), and so does the configured default.         *)
DetectLanguage == "hi"

(* Mutant of TargetLanguage: the language of the session's context is      *)
(* preferred to detection.                                                 *)
TargetLanguageFromSession(sid, language) ==
    IF language # NoLang THEN language
    ELSE IF HasContext(sid) THEN contexts[sid].currentLanguage
    ELSE DetectLanguage

(* `language || await this.detectLanguage(audioBlob)` (line 91)            *)
TargetLanguage(sid, language) ==
    IF language # NoLang THEN language ELSE DetectLanguage

(* convertSpeechToText(audioBlob, language?, sessionId?) up to its await   *)
(* of sttService.transcribe: the enableVoiceInput test and the target      *)
(* language.  The suspended call keeps its arguments, and with them        *)
(* whether its session had a context when it started.                      *)
ConvertSpeechToTextCall(sid, language) ==
    /\ IF ~config.enableVoiceInput
       THEN /\ last' = Outcome("speechToText", sid, "disabled", language, "voice",
                                <<"Voice input is disabled">>, 0, NoSuggestion)
            /\ UNCHANGED pending
       ELSE /\ pending' = pending (+) SetToBag({[sid |-> sid, arg |-> language,
                                                 lang |-> TargetLanguage(sid, language),
                                                 known |-> HasContext(sid)]})
            /\ UNCHANGED last
    /\ UNCHANGED <<config, contexts, now, run, flags, prior, lastReset, log>>

(* Mutant of ContextsOnSuccess: a success removes the context.             *)
ContextsOnSuccessDrops(sid, lang, mode) == MapDelete(contexts, sid)

(* Mutant of ContextsOnSuccess: a success on a session without context     *)
(* creates one.                                                            *)
ContextsOnSuccessCreates(sid, lang, mode) ==
    IF config.preserveContext /\ HasContext(sid)
    THEN [contexts EXCEPT ![sid] = SuccessContext(@, lang, mode, now)]
    ELSE MapSet(contexts, sid, SetContextValue(contexts, sid, lang, mode, now))

(* Mutant of ContextsOnSuccess: a success updates every stored context.     *)
ContextsOnSuccessEverySession(sid, lang, mode) ==
    IF config.preserveContext /\ HasContext(sid)
    THEN [s \in DOMAIN contexts |-> SuccessContext(contexts[s], lang, mode, now)]
    ELSE contexts

(* updateContextOnSuccess(sessionId, language, inputMode), on contexts     *)
ContextsOnSuccess(sid, lang, mode) ==
    IF config.preserveContext /\ HasContext(sid)
    THEN [contexts EXCEPT ![sid] = SuccessContext(@, lang, mode, now)]
    ELSE contexts

(* The history variables of a success update of sid.                       *)
HistoryOnSuccess(sid, lang, mode) ==
    IF config.preserveContext /\ HasContext(sid)
    THEN ResetRun(sid, "success") /\ Logged(sid, HistoryEntry(now, mode, TRUE, lang))
    ELSE UNCHANGED <<run, flags, prior, lastReset, log>>

(* convertSpeechToText after sttService.transcribe resolved (lines 96-104) *)
ConvertSpeechToTextResolve(c) ==
    /\ BagIn(c, pending)
    /\ pending' = pending (-) SetToBag({c})
    /\ last' = [Outcome("speechToText", c.sid, "ok", c.lang, "voice", <<>>, 0, NoSuggestion)
                    EXCEPT !.known = c.known]
    /\ IF c.sid # NoSession
       THEN /\ contexts' = ContextsOnSuccess(c.sid, c.lang, "voice")
            /\ HistoryOnSuccess(c.sid, c.lang, "voice")
       ELSE UNCHANGED <<contexts, run, flags, prior, lastReset, log>>
    /\ UNCHANGED <<config, now>>

(* updateContextOnFailure(sessionId, inputMode): the context it leaves     *)
ContextOnFailure(ctx, mode) ==
    LET failed == FailureContext(ctx, mode, now)
    IN  IF ShouldSuggestOnFailure(failed, mode)
        THEN [failed EXCEPT !.fallbackSuggested = TRUE]
        ELSE failed

(* Mutant of SuggestionOnFailure: a failure on a session without context   *)
(* recommends the fallback.                                                *)
SuggestionOnFailureForUnknown(sid, mode) ==
    IF ~HasContext(sid)
    THEN [NoSuggestion EXCEPT !.present = TRUE, !.shouldSuggestFallback = config.fallbackToText]
    ELSE LET failed == FailureContext(contexts[sid], mode, now)
         IN  Suggestion(ShouldSuggestOnFailure(failed, mode), failed)

(* updateContextOnFailure(sessionId, inputMode): the suggestion it returns *)
SuggestionOnFailure(sid, mode) ==
    IF ~HasContext(sid)
    THEN [NoSuggestion EXCEPT !.present = TRUE]
    ELSE LET failed == FailureContext(contexts[sid], mode, now)
         IN  Suggestion(ShouldSuggestOnFailure(failed, mode), failed)

(* The error sttService.transcribe rejects with, and the message of the    *)
(* VoiceInputError that convertSpeechToText builds.                        *)
RecognitionError == <<"Speech recognition failed">>

VoiceInputFailed == <<"Voice input failed after attempts">>

(* Mutant of ConvertSpeechToTextReject: the error of the service is        *)
(* replaced by an error of the interface.                                  *)
ConvertSpeechToTextRejectWraps(c) ==
    /\ BagIn(c, pending)
    /\ pending' = pending (-) SetToBag({c})
    /\ IF c.sid # NoSession
       THEN LET sug == SuggestionOnFailure(c.sid, "voice")
            IN  /\ last' = [Outcome("speechToText", c.sid,
                                    IF sug.shouldSuggestFallback THEN "fallbackError" ELSE "error",
                                    c.lang, "voice",
                                    IF sug.shouldSuggestFallback THEN VoiceInputFailed
                                    ELSE <<"Speech-to-text conversion failed">>,
                                    0, sug)
                                EXCEPT !.known = c.known,
                                       !.input = [text |-> RecognitionError,
                                                  language |-> c.arg]]
                /\ IF HasContext(c.sid)
                   THEN /\ contexts' = [contexts EXCEPT ![c.sid] = ContextOnFailure(@, "voice")]
                        /\ run' = [run EXCEPT ![c.sid] = @ + 1]
                        /\ flags' = [flags EXCEPT ![c.sid] =
                                        @ + (IF sug.shouldSuggestFallback THEN 1 ELSE 0)]
                        /\ Logged(c.sid, HistoryEntry(now, "voice", FALSE,
                                                      contexts[c.sid].currentLanguage))
                        /\ UNCHANGED <<prior, lastReset>>
                   ELSE UNCHANGED <<contexts, run, flags, prior, lastReset, log>>
       ELSE /\ last' = [Outcome("speechToText", c.sid, "error", c.lang, "voice",
                                <<"Speech-to-text conversion failed">>, 0, NoSuggestion)
                            EXCEPT !.input = [text |-> RecognitionError, language |-> c.arg]]
            /\ UNCHANGED <<contexts, run, flags, prior, lastReset, log>>
    /\ UNCHANGED <<config, now>>

(* convertSpeechToText after sttService.transcribe rejected (lines 106-129):*)
(* the outcome keeps the error the caller gets (text) and the error the    *)
(* service rejected with (input).                                          *)
ConvertSpeechToTextReject(c) ==
    /\ BagIn(c, pending)
    /\ pending' = pending (-) SetToBag({c})
    /\ IF c.sid # NoSession
       THEN LET sug == SuggestionOnFailure(c.sid, "voice")
            IN  /\ last' = [Outcome("speechToText", c.sid,
                                    IF sug.shouldSuggestFallback THEN "fallbackError" ELSE "error",
                                    c.lang, "voice",
                                    IF sug.shouldSuggestFallback THEN VoiceInputFailed
                                    ELSE RecognitionError,
                                    0, sug)
                                EXCEPT !.known = c.known,
                                       !.input = [text |-> RecognitionError,
                                                  language |-> c.arg]]
                /\ IF HasContext(c.sid)
                   THEN /\ contexts' = [contexts EXCEPT ![c.sid] = ContextOnFailure(@, "voice")]
                        /\ run' = [run EXCEPT ![c.sid] = @ + 1]
                        /\ flags' = [flags EXCEPT ![c.sid] =
                                        @ + (IF sug.shouldSuggestFallback THEN 1 ELSE 0)]
                        /\ Logged(c.sid, HistoryEntry(now, "voice", FALSE,
                                                      contexts[c.sid].currentLanguage))
                        /\ UNCHANGED <<prior, lastReset>>
                   ELSE UNCHANGED <<contexts, run, flags, prior, lastReset, log>>
       ELSE /\ last' = [Outcome("speechToText", c.sid, "error", c.lang, "voice",
                                RecognitionError, 0, NoSuggestion)
                            EXCEPT !.input = [text |-> RecognitionError, language |-> c.arg]]
            /\ UNCHANGED <<contexts, run, flags, prior, lastReset, log>>
    /\ UNCHANGED <<config, now>>

(* Mutant of TextLanguage: the language of the session's context is        *)
(* ignored.                                                                *)
TextLanguageIgnoresContext(sid, language) ==
    IF language # NoLang THEN language ELSE DefaultLanguage

(* processTextInput: `language || context?.currentLanguage || default`     *)
TextLanguage(sid, language) ==
    IF language # NoLang THEN language
    ELSE IF HasContext(sid) THEN contexts[sid].currentLanguage
    ELSE DefaultLanguage

(* processTextInput(text, sessionId, language?)                            *)
ProcessTextInput(sid, text, language) ==
    /\ IF Len(Trim(text)) = 0
       THEN /\ last' = [Outcome("processText", sid, "emptyError", language, "text", <<>>, 0,
                                 NoSuggestion)
                            EXCEPT !.input = [text |-> text, language |-> language]]
            /\ UNCHANGED <<contexts, run, flags, prior, lastReset, log>>
       ELSE LET target == TextLanguage(sid, language)
            IN  /\ last' = [Outcome("processText", sid, "ok", target, "text", Trim(text), 100,
                                     NoSuggestion)
                                EXCEPT !.input = [text |-> text, language |-> language]]
                /\ contexts' = ContextsOnSuccess(sid, target, "text")
                /\ HistoryOnSuccess(sid, target, "text")
    /\ UNCHANGED <<config, pending, now>>

(* What ttsService.synthesize settles with: the audio it resolves with or   *)
(* the error it rejects with.                                              *)
Synthesized(ok) == IF ok THEN <<"audio">> ELSE <<"TTS failed">>

(* Mutant of ConvertTextToSpeech: the error of ttsService.synthesize is    *)
(* replaced by an error of the interface.                                  *)
ConvertTextToSpeechWraps(lang, synthesized) ==
    /\ last' = IF ~config.enableVoiceOutput
               THEN Outcome("textToSpeech", NoSession, "disabled", lang, NoMode,
                            <<"Voice output is disabled">>, 0, NoSuggestion)
               ELSE [Outcome("textToSpeech", NoSession, IF synthesized THEN "ok" ELSE "error",
                             lang, NoMode,
                             IF synthesized THEN Synthesized(TRUE)
                             ELSE <<"Text-to-speech conversion failed">>,
                             0, NoSuggestion)
                        EXCEPT !.input = [text |-> Synthesized(synthesized), language |-> lang]]
    /\ UNCHANGED <<config, contexts, pending, now, run, flags, prior, lastReset, log>>

(* convertTextToSpeech(text, language, voice?): the enableVoiceOutput test *)
(* and the outcome of ttsService.synthesize, which it returns or throws    *)
(* again.  The outcome keeps what the interface settled with (text) and,   *)
(* when ttsService.synthesize was called, what that call settled with      *)
(* (input).                                                                *)
ConvertTextToSpeech(lang, synthesized) ==
    /\ last' = IF ~config.enableVoiceOutput
               THEN Outcome("textToSpeech", NoSession, "disabled", lang, NoMode,
                            <<"Voice output is disabled">>, 0, NoSuggestion)
               ELSE [Outcome("textToSpeech", NoSession, IF synthesized THEN "ok" ELSE "error",
                             lang, NoMode, Synthesized(synthesized), 0, NoSuggestion)
                        EXCEPT !.input = [text |-> Synthesized(synthesized), language |-> lang]]
    /\ UNCHANGED <<config, contexts, pending, now, run, flags, prior, lastReset, log>>

(* The clock advances.                                                     *)
Tick(d) ==
    /\ now + d <= MaxTime
    /\ now' = now + d
    /\ UNCHANGED <<config, contexts, pending, last, run, flags, prior, lastReset, log>>

(***************************************************************************)
(* Spec: every operation, two sessions, two languages, the clock.  The     *)
(* operations that record an interaction are bounded by the number of      *)
(* records written and calls in flight.                                    *)
(***************************************************************************)
InitHistory ==
    /\ last = NoOutcome
    /\ run = [s \in Sessions |-> 0]
    /\ flags = [s \in Sessions |-> 0]
    /\ prior = [s \in Sessions |-> 0]
    /\ lastReset = [s \in Sessions |-> "none"]
    /\ log = [s \in Sessions |-> <<>>]

InitOrchestrator ==
    /\ contexts = [s \in {} |-> 0]
    /\ pending = EmptyBag
    /\ now = 0
    /\ InitHistory

Idle == script = <<>> /\ pos = 0 /\ stt = SttIdle /\ tts = TtsIdle /\ audio = AudioIdle

Init ==
    /\ config \in Configs
    /\ InitOrchestrator
    /\ Idle

RECURSIVE SumLen(_, _)
SumLen(f, S) ==
    IF S = {} THEN 0
    ELSE LET s == CHOOSE x \in S : TRUE IN Len(f[s]) + SumLen(f, S \ {s})

(* Records written so far plus the calls that may still write one.         *)
Budget == SumLen(log, Sessions) + BagCardinality(pending)

OrchFrame == UNCHANGED <<script, pos, stt, tts, audio>>

Invoke ==
    \/ \E sid \in Sessions, lang \in Langs, mode \in Modes :
          Budget < MaxLog /\ SetContext(sid, lang, mode) /\ OrchFrame
    \/ \E sid \in Sessions : ClearContext(sid) /\ OrchFrame
    \/ \E sid \in Sessions, mode \in Modes :
          Budget < MaxLog /\ SwitchInputMode(sid, mode) /\ OrchFrame
    \/ \E sid \in Sessions : GetFallbackSuggestion(sid) /\ OrchFrame
    \/ \E sid \in Sessions : MarkFallbackSuggested(sid) /\ OrchFrame
    \/ CleanupExpiredContexts /\ OrchFrame
    \/ \E sid \in Sessions \cup {NoSession}, language \in Langs \cup {NoLang} :
          /\ Budget < MaxLog
          /\ BagCardinality(pending) < MaxPending
          /\ ConvertSpeechToTextCall(sid, language)
          /\ OrchFrame
    \/ \E sid \in Sessions, text \in Texts, language \in Langs \cup {NoLang} :
          Budget < MaxLog /\ ProcessTextInput(sid, text, language) /\ OrchFrame

Complete ==
    \/ \E c \in BagToSet(pending) : ConvertSpeechToTextResolve(c) /\ OrchFrame
    \/ \E c \in BagToSet(pending) : ConvertSpeechToTextReject(c) /\ OrchFrame

Next ==
    \/ Invoke
    \/ Complete
    \/ \E d \in TickSteps : Tick(d) /\ OrchFrame

Spec == Init /\ [][Next]_vars

(***************************************************************************)
(* SpecSession: every operation on one session in one language, without    *)
(* the clock, to a greater depth.                                          *)
(***************************************************************************)
TheSession == "s1"

InvokeSession ==
    \/ \E mode \in Modes :
          Budget < MaxSessionLog /\ SetContext(TheSession, DefaultLanguage, mode) /\ OrchFrame
    \/ ClearContext(TheSession) /\ OrchFrame
    \/ \E mode \in Modes :
          Budget < MaxSessionLog /\ SwitchInputMode(TheSession, mode) /\ OrchFrame
    \/ GetFallbackSuggestion(TheSession) /\ OrchFrame
    \/ MarkFallbackSuggested(TheSession) /\ OrchFrame
    \/ \E sid \in {TheSession, NoSession} :
          /\ Budget < MaxSessionLog
          /\ BagCardinality(pending) < MaxPending
          /\ ConvertSpeechToTextCall(sid, NoLang)
          /\ OrchFrame
    \/ \E text \in Texts :
          Budget < MaxSessionLog /\ ProcessTextInput(TheSession, text, NoLang) /\ OrchFrame

NextSession ==
    \/ InvokeSession
    \/ Complete

SpecSession == Init /\ [][NextSession]_vars

(***************************************************************************)
(* SpecRun: long runs of speechToText on one session under the default     *)
(* configuration, with the reset events between them.                      *)
(***************************************************************************)
InitRun ==
    /\ config = DefaultConfig
    /\ InitOrchestrator
    /\ Idle

InvokeRun ==
    \/ \E mode \in Modes :
          Budget < MaxRunLog /\ SetContext(TheSession, DefaultLanguage, mode) /\ OrchFrame
    \/ \E mode \in Modes :
          Budget < MaxRunLog /\ SwitchInputMode(TheSession, mode) /\ OrchFrame
    \/ /\ Budget < MaxRunLog
       /\ BagCardinality(pending) < MaxPending
       /\ ConvertSpeechToTextCall(TheSession, NoLang)
       /\ OrchFrame

NextRun ==
    \/ InvokeRun
    \/ Complete

SpecRun == InitRun /\ [][NextRun]_vars

(***************************************************************************)
(* SpecLang: one session and the calls without a session, in two           *)
(* languages, with and without the optional language argument.             *)
(***************************************************************************)
InvokeLang ==
    \/ \E lang \in Langs, mode \in Modes :
          Budget < MaxLangLog /\ SetContext(TheSession, lang, mode) /\ OrchFrame
    \/ ClearContext(TheSession) /\ OrchFrame
    \/ \E sid \in {TheSession, NoSession}, language \in Langs \cup {NoLang} :
          /\ Budget < MaxLangLog
          /\ BagCardinality(pending) < MaxPending
          /\ ConvertSpeechToTextCall(sid, language)
          /\ OrchFrame
    \/ \E text \in Texts, language \in Langs \cup {NoLang} :
          Budget < MaxLangLog /\ ProcessTextInput(TheSession, text, language) /\ OrchFrame

NextLang ==
    \/ InvokeLang
    \/ Complete

SpecLang == InitRun /\ [][NextLang]_vars

(***************************************************************************)
(* SpecClock: every operation on two sessions in one language, with the    *)
(* clock and the expiry sweep.                                             *)
(***************************************************************************)
ClockTexts == { <<" ">>, <<" ", "a", " ">> }

ClockConfigs == { DefaultConfig, [DefaultConfig EXCEPT !.enableVoiceInput = FALSE] }

InitClock ==
    /\ config \in ClockConfigs
    /\ InitOrchestrator
    /\ Idle

InvokeClock ==
    \/ \E sid \in Sessions :
          Budget < MaxClockLog /\ SetContext(sid, DefaultLanguage, "voice") /\ OrchFrame
    \/ \E sid \in Sessions : ClearContext(sid) /\ OrchFrame
    \/ \E sid \in Sessions, mode \in Modes :
          Budget < MaxClockLog /\ SwitchInputMode(sid, mode) /\ OrchFrame
    \/ GetFallbackSuggestion(TheSession) /\ OrchFrame
    \/ MarkFallbackSuggested(TheSession) /\ OrchFrame
    \/ CleanupExpiredContexts /\ OrchFrame
    \/ \E sid \in Sessions :
          /\ Budget < MaxClockLog
          /\ BagCardinality(pending) < MaxPending
          /\ ConvertSpeechToTextCall(sid, NoLang)
          /\ OrchFrame
    \/ \E sid \in Sessions, text \in ClockTexts :
          Budget < MaxClockLog /\ ProcessTextInput(sid, text, NoLang) /\ OrchFrame
    \/ \E synthesized \in BOOLEAN :
          ConvertTextToSpeech(DefaultLanguage, synthesized) /\ OrchFrame

NextClock ==
    \/ InvokeClock
    \/ Complete
    \/ \E d \in TickSteps : Tick(d) /\ OrchFrame

SpecClock == InitClock /\ [][NextClock]_vars

(***************************************************************************)
(* SpecIsolation: the operations addressed to a session, on two sessions   *)
(* under the default configuration, with the expiry sweep and one step of  *)
(* the clock beyond the timeout.                                           *)
(***************************************************************************)
InvokeIsolation ==
    \/ \E sid \in Sessions :
          Budget < MaxIsolationLog /\ SetContext(sid, DefaultLanguage, "voice") /\ OrchFrame
    \/ \E sid \in Sessions : ClearContext(sid) /\ OrchFrame
    \/ \E sid \in Sessions :
          Budget < MaxIsolationLog /\ SwitchInputMode(sid, "text") /\ OrchFrame
    \/ \E sid \in Sessions : MarkFallbackSuggested(sid) /\ OrchFrame
    \/ CleanupExpiredContexts /\ OrchFrame
    \/ \E sid \in Sessions :
          /\ Budget < MaxIsolationLog
          /\ BagCardinality(pending) < MaxPending
          /\ ConvertSpeechToTextCall(sid, NoLang)
          /\ OrchFrame
    \/ \E sid \in Sessions :
          Budget < MaxIsolationLog /\ ProcessTextInput(sid, <<"a">>, NoLang) /\ OrchFrame

NextIsolation ==
    \/ InvokeIsolation
    \/ Complete
    \/ Tick(MaxTime) /\ OrchFrame

SpecIsolation == InitRun /\ [][NextIsolation]_vars

(***************************************************************************)
(* SpecRace: overlapping calls on one session under the default            *)
(* configuration.  The session is first brought to the edge of its         *)
(* history capacity by setContext and processTextInput alone; from there   *)
(* setContext, switchInputMode, processTextInput and up to MaxRacePending  *)
(* suspended convertSpeechToText calls interleave freely.                  *)
(***************************************************************************)
RaceWarmUp == HistoryCap - 1

WarmedUp == Len(log[TheSession]) >= RaceWarmUp

InvokeRace ==
    \/ /\ Budget < MaxRaceLog
       /\ ~HasContext(TheSession) \/ WarmedUp
       /\ SetContext(TheSession, DefaultLanguage, "voice")
       /\ OrchFrame
    \/ /\ Budget < MaxRaceLog
       /\ HasContext(TheSession) /\ ~WarmedUp
       /\ ProcessTextInput(TheSession, <<"a">>, NoLang)
       /\ OrchFrame
    \/ \E text \in ClockTexts :
          /\ Budget < MaxRaceLog
          /\ WarmedUp
          /\ ProcessTextInput(TheSession, text, NoLang)
          /\ OrchFrame
    \/ \E mode \in Modes :
          /\ Budget < MaxRaceLog
          /\ WarmedUp
          /\ SwitchInputMode(TheSession, mode)
          /\ OrchFrame
    \/ /\ Budget < MaxRaceLog
       /\ WarmedUp
       /\ BagCardinality(pending) < MaxRacePending
       /\ ConvertSpeechToTextCall(TheSession, NoLang)
       /\ OrchFrame

NextRace ==
    \/ InvokeRace
    \/ Complete

SpecRace == InitRun /\ [][NextRace]_vars

(***************************************************************************)
(* SpecLive: convertSpeechToText calls with and without a session, with    *)
(* voice input enabled and disabled, among setContext, clearContext and    *)
(* processTextInput on the session.  Each call of sttService.transcribe    *)
(* settles: the continuation of a suspended call runs once its promise is  *)
(* resolved or rejected, hence the weak fairness of Complete.              *)
(***************************************************************************)
InvokeLive ==
    \/ Budget < MaxLiveLog /\ SetContext(TheSession, DefaultLanguage, "voice") /\ OrchFrame
    \/ ClearContext(TheSession) /\ OrchFrame
    \/ Budget < MaxLiveLog /\ ProcessTextInput(TheSession, <<"a">>, NoLang) /\ OrchFrame
    \/ \E sid \in {TheSession, NoSession} :
          /\ Budget < MaxLiveLog
          /\ BagCardinality(pending) < MaxPending
          /\ ConvertSpeechToTextCall(sid, NoLang)
          /\ OrchFrame

NextLive ==
    \/ InvokeLive
    \/ Complete

SpecLive == InitClock /\ [][NextLive]_vars /\ WF_vars(Complete)

(***************************************************************************)
(* SpecOverlap: speechToText calls on one session under the default        *)
(* configuration, several of them awaiting the service at the same time,   *)
(* with setContext and switchInputMode between them.                       *)
(***************************************************************************)
InvokeOverlap ==
    \/ Budget < MaxOverlapLog /\ SetContext(TheSession, DefaultLanguage, "voice") /\ OrchFrame
    \/ \E mode \in Modes :
          Budget < MaxOverlapLog /\ SwitchInputMode(TheSession, mode) /\ OrchFrame
    \/ /\ Budget < MaxOverlapLog
       /\ BagCardinality(pending) < MaxOverlapPending
       /\ ConvertSpeechToTextCall(TheSession, NoLang)
       /\ OrchFrame

NextOverlap ==
    \/ InvokeOverlap
    \/ Complete

SpecOverlap == InitRun /\ [][NextOverlap]_vars

(***************************************************************************)
(* SpecSpeak: convertTextToSpeech with voice output enabled and disabled,  *)
(* among the operations that write the context of one session.             *)
(***************************************************************************)
SpeakConfigs == { DefaultConfig, [DefaultConfig EXCEPT !.enableVoiceOutput = FALSE] }

InitSpeak ==
    /\ config \in SpeakConfigs
    /\ InitOrchestrator
    /\ Idle

InvokeSpeak ==
    \/ Budget < MaxSpeakLog /\ SetContext(TheSession, DefaultLanguage, "voice") /\ OrchFrame
    \/ \E mode \in Modes :
          Budget < MaxSpeakLog /\ SwitchInputMode(TheSession, mode) /\ OrchFrame
    \/ Budget < MaxSpeakLog /\ ProcessTextInput(TheSession, <<"a">>, NoLang) /\ OrchFrame
    \/ /\ Budget < MaxSpeakLog
       /\ BagCardinality(pending) < MaxPending
       /\ ConvertSpeechToTextCall(TheSession, NoLang)
       /\ OrchFrame
    \/ \E lang \in Langs, synthesized \in BOOLEAN :
          ConvertTextToSpeech(lang, synthesized) /\ OrchFrame

NextSpeak ==
    \/ InvokeSpeak
    \/ Complete

SpecSpeak == InitSpeak /\ [][NextSpeak]_vars

(***************************************************************************)
(* SpecSuggest: the fallback suggestion of one session, with fallback      *)
(* enabled and disabled, and a caller that writes failureCount in the      *)
(* object getContext returned.                                             *)
(***************************************************************************)
SuggestConfigs == { DefaultConfig, [DefaultConfig EXCEPT !.fallbackToText = FALSE] }

WrittenCounts == {1, 3}

InitSuggest ==
    /\ config \in SuggestConfigs
    /\ InitOrchestrator
    /\ Idle

InvokeSuggest ==
    \/ \E mode \in Modes :
          Budget < MaxSuggestLog /\ SetContext(TheSession, DefaultLanguage, mode) /\ OrchFrame
    \/ ClearContext(TheSession) /\ OrchFrame
    \/ \E mode \in Modes :
          Budget < MaxSuggestLog /\ SwitchInputMode(TheSession, mode) /\ OrchFrame
    \/ GetFallbackSuggestion(TheSession) /\ OrchFrame
    \/ MarkFallbackSuggested(TheSession) /\ OrchFrame
    \/ \E n \in WrittenCounts : GetContextWrite(TheSession, n) /\ OrchFrame
    \/ /\ Budget < MaxSuggestLog
       /\ BagCardinality(pending) < MaxPending
       /\ ConvertSpeechToTextCall(TheSession, NoLang)
       /\ OrchFrame

NextSuggest ==
    \/ InvokeSuggest
    \/ Complete

SpecSuggest == InitSuggest /\ [][NextSuggest]_vars

(***************************************************************************)
(* SpecHist: scripted workloads on one session, long enough to overflow    *)
(* conversationHistory.  A script starts with setContext and then repeats  *)
(* one operation, with one other operation at one position; each scripted  *)
(* operation runs at its own minute.                                       *)
(***************************************************************************)
HistOps == {"setVoice", "setText", "sttOk", "sttFail", "text", "switchVoice", "switchText"}

Scripts ==
    { <<first>> \o [i \in 1..ScriptLen |-> IF i = p THEN d ELSE b] :
        first \in {"setVoice", "setText"}, b \in HistOps, d \in HistOps, p \in 1..ScriptLen }

InitHist ==
    /\ config = DefaultConfig
    /\ InitOrchestrator
    /\ script \in Scripts
    /\ pos = 1
    /\ stt = SttIdle
    /\ tts = TtsIdle
    /\ audio = AudioIdle

Scripted(op) == pos <= Len(script) /\ now = pos /\ script[pos] = op

Advance == pos' = pos + 1 /\ UNCHANGED <<script, stt, tts, audio>>

NextHist ==
    \/ pos <= Len(script) /\ now < pos /\ Tick(1) /\ OrchFrame
    \/ Scripted("setVoice") /\ SetContext(TheSession, DefaultLanguage, "voice") /\ Advance
    \/ Scripted("setText") /\ SetContext(TheSession, DefaultLanguage, "text") /\ Advance
    \/ Scripted("switchVoice") /\ SwitchInputMode(TheSession, "voice") /\ Advance
    \/ Scripted("switchText") /\ SwitchInputMode(TheSession, "text") /\ Advance
    \/ Scripted("text") /\ ProcessTextInput(TheSession, <<"a">>, NoLang) /\ Advance
    \/ /\ Scripted("sttOk") \/ Scripted("sttFail")
       /\ pending = EmptyBag
       /\ ConvertSpeechToTextCall(TheSession, NoLang)
       /\ OrchFrame
    \/ Scripted("sttOk") /\ (\E c \in BagToSet(pending) : ConvertSpeechToTextResolve(c)) /\ Advance
    \/ Scripted("sttFail") /\ (\E c \in BagToSet(pending) : ConvertSpeechToTextReject(c)) /\ Advance

SpecHist == InitHist /\ [][NextHist]_vars

(***************************************************************************)
(* SpecCascade: SpeechToTextServiceImpl.transcribe, one request at a time, *)
(* one step per await.  The two backends are the environment: whether each *)
(* is up during the request, and whether its transcription returns (with   *)
(* which confidence and language) or throws.                               *)
(***************************************************************************)
InitCascade ==
    /\ config = DefaultConfig
    /\ InitOrchestrator
    /\ script = <<>>
    /\ pos = 0
    /\ tts = TtsIdle
    /\ audio = AudioIdle
    /\ \E f \in BOOLEAN, th \in Thresholds : stt = SttService(f, th)

(* transcribe(audioBlob, language?) up to `await cloudService.isAvailable()` *)
Transcribe(language, cUp, wUp) ==
    /\ stt.pc \in {"idle", "done"}
    /\ stt' = StartTranscribe(stt, language, cUp, wUp)

(* cloudService.isAvailable() answers                                      *)
CloudIsAvailableReturns ==
    /\ stt.pc = "cloudIsAvailable"
    /\ stt' = OnCloudAvailable(stt)

(* cloudService.transcribe resolves                                        *)
CloudTranscribeReturns(conf, guess) ==
    /\ stt.pc = "cloudTranscribe"
    /\ stt' = OnCloudResult(stt, BackendResult("cloud", conf, stt.language, guess))

(* cloudService.transcribe rejects                                         *)
CloudTranscribeThrows ==
    /\ stt.pc = "cloudTranscribe"
    /\ stt' = OnCloudError(stt)

(* whisperService.isAvailable() answers                                    *)
WhisperIsAvailableReturns ==
    /\ stt.pc = "whisperIsAvailable"
    /\ stt' = OnWhisperAvailable(stt)

(* whisperService.transcribe resolves                                      *)
WhisperTranscribeReturns(conf, guess) ==
    /\ stt.pc = "whisperTranscribe"
    /\ stt' = OnWhisperResult(stt, BackendResult("whisper", conf, stt.language, guess))

(* whisperService.transcribe rejects                                       *)
WhisperTranscribeThrows ==
    /\ stt.pc = "whisperTranscribe"
    /\ stt' = OnWhisperError(stt)

CascadeFrame ==
    UNCHANGED <<config, contexts, pending, now, last, run, flags, prior,
                lastReset, log, script, pos, tts, audio>>

NextCascade ==
    \/ \E language \in Langs \cup {NoLang}, cUp \in BOOLEAN, wUp \in BOOLEAN :
          Transcribe(language, cUp, wUp) /\ CascadeFrame
    \/ CloudIsAvailableReturns /\ CascadeFrame
    \/ \E conf \in Confidences, guess \in Langs :
          /\ stt.language # NoLang => guess = DefaultLanguage
          /\ CloudTranscribeReturns(conf, guess)
          /\ CascadeFrame
    \/ CloudTranscribeThrows /\ CascadeFrame
    \/ WhisperIsAvailableReturns /\ CascadeFrame
    \/ \E conf \in Confidences, guess \in Langs :
          /\ stt.language # NoLang => guess = DefaultLanguage
          /\ WhisperTranscribeReturns(conf, guess)
          /\ CascadeFrame
    \/ WhisperTranscribeThrows /\ CascadeFrame

SpecCascade == InitCascade /\ [][NextCascade]_vars

(***************************************************************************)
(* SpecSynth: TextToSpeechServiceImpl.synthesize, one request at a time,   *)
(* one step per await, under the four configurations of preferLocalTTS     *)
(* and enableCloudTTS.                                                     *)
(***************************************************************************)
InitSynth ==
    /\ config = DefaultConfig
    /\ InitOrchestrator
    /\ script = <<>>
    /\ pos = 0
    /\ stt = SttIdle
    /\ audio = AudioIdle
    /\ \E p \in BOOLEAN, e \in BOOLEAN : tts = TtsService(p, e)

(* synthesize(text, language, voice?) up to its first await, or to the     *)
(* error it throws before                                                  *)
Synthesize(text, language) ==
    /\ tts.pc \in {"idle", "done"}
    /\ tts' = SynthStart(tts, text, language)

(* localEngine.synthesize resolves                                         *)
LocalSynthesizeReturns ==
    /\ tts.pc \in {"localSynthesize", "localFallback"}
    /\ tts' = SynthOnResult(tts, "local")

(* localEngine.synthesize rejects                                          *)
LocalSynthesizeThrows ==
    /\ tts.pc \in {"localSynthesize", "localFallback"}
    /\ tts' = SynthOnError(tts, "local")

(* cloudProvider.isAvailable() answers                                     *)
CloudProviderIsAvailableReturns(up) ==
    /\ tts.pc = "cloudIsAvailable"
    /\ tts' = SynthOnCloudAvailable(tts, up)

(* cloudProvider.synthesize resolves                                       *)
CloudSynthesizeReturns ==
    /\ tts.pc = "cloudSynthesize"
    /\ tts' = SynthOnResult(tts, "cloud")

(* cloudProvider.synthesize rejects                                        *)
CloudSynthesizeThrows ==
    /\ tts.pc = "cloudSynthesize"
    /\ tts' = SynthOnError(tts, "cloud")

SynthFrame ==
    UNCHANGED <<config, contexts, pending, now, last, run, flags, prior,
                lastReset, log, script, pos, stt, audio>>

NextSynth ==
    \/ \E text \in Texts, language \in TtsLangs : Synthesize(text, language) /\ SynthFrame
    \/ LocalSynthesizeReturns /\ SynthFrame
    \/ LocalSynthesizeThrows /\ SynthFrame
    \/ \E up \in BOOLEAN : CloudProviderIsAvailableReturns(up) /\ SynthFrame
    \/ CloudSynthesizeReturns /\ SynthFrame
    \/ CloudSynthesizeThrows /\ SynthFrame

SpecSynth == InitSynth /\ [][NextSynth]_vars

(***************************************************************************)
(* SpecAudio: validateAudio and compressAudio applied to one payload,      *)
(* drawn with the configuration of the processor from sizes around each    *)
(* limit and from listed, unlisted and non-audio media types.              *)
(***************************************************************************)
AudioSizes == {0, 1023, 1024, 10000, 10001, 100000, 102400, 170000, 5242880, 5242881}

AudioTypes ==
    { <<"audio", "wav">>, <<"audio", "x-custom">>, <<"audio">>, <<"text", "plain">>, <<>> }

MaxFileSizes == {DefaultMaxFileSize, 512}

InitAudio ==
    /\ config = DefaultConfig
    /\ InitOrchestrator
    /\ script = <<>>
    /\ pos = 0
    /\ stt = SttIdle
    /\ tts = TtsIdle
    /\ \E m \in MaxFileSizes, e \in BOOLEAN, n \in AudioSizes, t \in AudioTypes :
          audio = AudioProcessorState(m, e, [size |-> n, type |-> t])

(* validateAudio(audioBlob) is called and its result kept                  *)
ValidateAudioCall ==
    /\ Len(audio.validations) < MaxValidations
    /\ audio' = [audio EXCEPT !.validations =
                                  Append(@, ValidateAudio(audio.blob, audio.maxFileSize))]

(* compressAudio(audioBlob, quality) is called and its result kept, with   *)
(* the call before it                                                      *)
CompressAudioCall(level, readOk) ==
    audio' = [audio EXCEPT !.prev = [via |-> audio.via, level |-> audio.level,
                                     readOk |-> audio.readOk, out |-> audio.out],
                           !.via = "compressAudio",
                           !.level = level, !.readOk = readOk,
                           !.out = CompressAudio(audio.blob, level,
                                                 audio.enableCompression, readOk)]

(* optimizeForBandwidth(audioBlob, networkQuality) is called and its       *)
(* result kept, with the call before it; compressAudio does not throw, so  *)
(* the catch of optimizeForBandwidth is never entered.                     *)
OptimizeForBandwidth(networkQuality, readOk) ==
    LET compressionLevel == BandwidthLevel(networkQuality) IN
    audio' = [audio EXCEPT !.prev = [via |-> audio.via, level |-> audio.level,
                                     readOk |-> audio.readOk, out |-> audio.out],
                           !.via = networkQuality,
                           !.level = compressionLevel, !.readOk = readOk,
                           !.out = CompressAudio(audio.blob, compressionLevel,
                                                 audio.enableCompression, readOk)]

AudioFrame ==
    UNCHANGED <<config, contexts, pending, now, last, run, flags, prior,
                lastReset, log, script, pos, stt, tts>>

NextAudio ==
    \/ ValidateAudioCall /\ AudioFrame
    \/ \E level \in CompressionLevels, readOk \in BOOLEAN :
          CompressAudioCall(level, readOk) /\ AudioFrame

SpecAudio == InitAudio /\ [][NextAudio]_vars

(* An AudioProcessor with or without compression, holding one recorded     *)
(* payload that is compressed again and again.                             *)
InitCompress ==
    /\ config = DefaultConfig
    /\ InitOrchestrator
    /\ script = <<>>
    /\ pos = 0
    /\ stt = SttIdle
    /\ tts = TtsIdle
    /\ \E e \in BOOLEAN, size \in AudioSizes :
          audio = AudioProcessorState(DefaultMaxFileSize, e,
                                      [size |-> size, type |-> <<"audio", "wav">>])

NextCompress ==
    \/ \E level \in CompressionLevels, readOk \in BOOLEAN :
          CompressAudioCall(level, readOk) /\ AudioFrame
    \/ \E networkQuality \in NetworkQualities, readOk \in BOOLEAN :
          OptimizeForBandwidth(networkQuality, readOk) /\ AudioFrame

SpecCompress == InitCompress /\ [][NextCompress]_vars

(***************************************************************************)
(* Claims C1-C5: the failure counter and the fallback recommendation.      *)
(***************************************************************************)

(* C1: for a session in voice mode with a context, after N >= 1            *)
(* consecutive failed speechToText calls (no success or mode switch in     *)
(* between) failureCount = N, and exactly one of those calls raised a      *)
(* fallback-eligible error: none while N < maxFailuresBeforeFallback, one  *)
(* from the call that reaches it on.                                       *)
C1_FailureRunRaisesOneRecommendation ==
    \A s \in DOMAIN contexts :
        (config.enableVoiceInput /\ config.fallbackToText
            /\ contexts[s].inputMode = "voice" /\ run[s] >= 1)
        => /\ contexts[s].failureCount = run[s]
           /\ flags[s] = (IF run[s] >= MaxFailuresBeforeFallback THEN 1 ELSE 0)

(* C2: a recommendation is not repeated within a run of failures, and      *)
(* after a reset event (a success or a mode switch) that follows a         *)
(* recommendation, a new run of maxFailuresBeforeFallback consecutive      *)
(* failed speechToText calls raises a fallback-eligible error again.       *)
C2_RecommendationAgainAfterReset ==
    \A s \in DOMAIN contexts :
        /\ flags[s] <= 1
        /\ (config.enableVoiceInput /\ config.fallbackToText
               /\ contexts[s].inputMode = "voice"
               /\ prior[s] >= 1 /\ lastReset[s] \in {"success", "switch"}
               /\ run[s] >= MaxFailuresBeforeFallback)
           => flags[s] = 1

(* C3: a successful speechToText call on a session with a context leaves   *)
(* that session's failureCount at 0, whatever it was before.               *)
C3_SuccessResetsFailureCount ==
    (last.op = "speechToText" /\ last.res = "ok" /\ last.pre.exists)
    => /\ HasContext(last.sid)
       /\ contexts[last.sid].failureCount = 0

(* C3 witness: a successful call has completed on a session whose          *)
(* failureCount was 2.                                                     *)
C3_Witness ==
    /\ last.op = "speechToText" /\ last.res = "ok"
    /\ last.pre.exists /\ last.pre.failureCount >= 2
    /\ HasContext(last.sid)

(* C4: switchInputMode on a session with a context returns true, sets      *)
(* inputMode to the new mode and leaves failureCount = 0 and               *)
(* fallbackSuggested = false, also when the new mode is the current one.   *)
C4_SwitchResetsCounters ==
    (last.op = "switchInputMode" /\ last.pre.exists)
    => /\ last.res = "true"
       /\ HasContext(last.sid)
       /\ contexts[last.sid].inputMode = last.mode
       /\ contexts[last.sid].failureCount = 0
       /\ ~contexts[last.sid].fallbackSuggested

(* C4 witness: a switch to the mode already in effect, on a session with   *)
(* failures counted and the recommendation already made.                   *)
C4_Witness ==
    /\ last.op = "switchInputMode" /\ last.res = "true"
    /\ last.pre.exists /\ last.pre.failureCount > 0 /\ last.pre.fallbackSuggested
    /\ last.pre.inputMode = last.mode

(* C5: in every step in which a session's inputMode changes value, by      *)
(* whatever operation, the session's failureCount is 0 and its             *)
(* fallbackSuggested is false in the resulting state.                      *)
C5_ModeChangeResetsCounters ==
    [][\A s \in (DOMAIN contexts) \cap (DOMAIN contexts') :
          contexts[s].inputMode # contexts'[s].inputMode
          => /\ contexts'[s].failureCount = 0
             /\ ~contexts'[s].fallbackSuggested]_vars

(***************************************************************************)
(* Claim C6: the bounded conversation history.                             *)
(***************************************************************************)

(* C6: every session's history has at most 10 entries, and once more than  *)
(* 10 history-recording operations have run on the session the history     *)
(* has exactly 10 entries, which are the 10 most recent records in their   *)
(* original order; until then it is every record in order.                 *)
C6_HistoryKeepsTenMostRecent ==
    \A s \in DOMAIN contexts :
        LET h == contexts[s].conversationHistory
            n == Len(log[s])
        IN  /\ Len(h) <= HistoryCap
            /\ n <= HistoryCap => h = log[s]
            /\ n > HistoryCap =>
                  /\ Len(h) = HistoryCap
                  /\ \A i \in 1..HistoryCap : h[i] = log[s][n - HistoryCap + i]

(* C6 witness: 12 or more records of more than one kind were written on    *)
(* the session, and the history holds 10 of them.                          *)
C6_Witness ==
    /\ HasContext(TheSession)
    /\ Len(log[TheSession]) > HistoryCap + 1
    /\ Len(contexts[TheSession].conversationHistory) = HistoryCap
    /\ \E i \in 1..HistoryCap :
          ~contexts[TheSession].conversationHistory[i].success
    /\ contexts[TheSession].conversationHistory[1] # log[TheSession][1]

(***************************************************************************)
(* Claims C7-C10: the recognition cascade.                                 *)
(***************************************************************************)
Transcribed == stt.pc = "done"

WhisperInvoked ==
    \E i \in 1..Len(stt.events) : stt.events[i] \in {"whisper.isAvailable", "whisper.transcribe"}

CloudAccepted ==
    /\ stt.cloudUp
    /\ stt.cloudOut.kind = "result"
    /\ stt.cloudOut.confidence >= stt.confidenceThreshold

CloudRejected ==
    /\ stt.cloudUp
    /\ stt.cloudOut.kind = "result"
    /\ stt.cloudOut.confidence < stt.confidenceThreshold

RequestSupportedOffline ==
    stt.language = NoLang \/ stt.language \in WhisperSupportedLanguages

(* C7: whenever the cloud backend reports available and returns a          *)
(* confidence >= the acceptance threshold, transcribe returns exactly      *)
(* that result and the offline backend is never invoked during the         *)
(* request.                                                                *)
C7_CloudResultWinsWithoutFallback ==
    CloudAccepted => /\ Transcribed
                     /\ stt.result = stt.cloudOut
                     /\ ~WhisperInvoked

(* C7 witness: a request returned a cloud result whose confidence equals   *)
(* the threshold, with the offline backend enabled and up.                 *)
C7_Witness ==
    /\ Transcribed /\ CloudAccepted
    /\ stt.cloudOut.confidence = stt.confidenceThreshold
    /\ stt.fallbackToOffline /\ stt.whisperUp
    /\ stt.result = stt.cloudOut

(* C8 as stated: whenever the cloud backend is unavailable, transcribe     *)
(* returns the offline backend's result if that backend is available and   *)
(* supports the requested language, fails with an error if neither is      *)
(* usable, and never completes with a null result.                         *)
C8_FallbackWhenCloudUnavailable ==
    (Transcribed /\ ~stt.cloudUp)
    => /\ stt.result.kind # "none"
       /\ (stt.whisperUp /\ RequestSupportedOffline)
             => stt.result.kind = "result" /\ stt.result = stt.whisperOut
       /\ ~stt.whisperUp => stt.result.kind = "error"

(* C8 amended: whenever the cloud backend is unavailable, transcribe       *)
(* completes with the offline backend's outcome (its result, or its error  *)
(* when its transcription fails) if that backend is enabled by             *)
(* fallbackToOffline and available, and with the no-service-available      *)
(* error otherwise; it never completes with a null result, and the cloud   *)
(* backend's transcription is not invoked.                                 *)
C8_FallbackWhenEnabledAndCloudUnavailable ==
    (Transcribed /\ ~stt.cloudUp)
    => /\ stt.result.kind \in {"result", "error"}
       /\ stt.cloudOut = NoOut
       /\ (stt.fallbackToOffline /\ stt.whisperUp)
             => /\ stt.whisperOut.kind \in {"result", "error"}
                /\ stt.result = stt.whisperOut
       /\ ~(stt.fallbackToOffline /\ stt.whisperUp)
             => /\ stt.whisperOut = NoOut
                /\ stt.result = NoServiceAvailable

(* C8 witness: with the cloud backend down, one request in a session of    *)
(* requests returned the offline backend's result.                         *)
C8_Witness ==
    /\ Transcribed /\ ~stt.cloudUp
    /\ stt.fallbackToOffline /\ stt.whisperUp
    /\ stt.result.kind = "result" /\ stt.result.backend = "whisper"

(* C9 as stated: a cloud result below the acceptance threshold is never    *)
(* returned; transcribe returns the offline backend's result if that       *)
(* backend is enabled and available, and otherwise fails with the          *)
(* no-service-available error.                                             *)
C9_LowConfidenceNeverReturned ==
    (Transcribed /\ CloudRejected)
    => /\ stt.result # stt.cloudOut
       /\ (stt.fallbackToOffline /\ stt.whisperUp)
             => stt.result.kind = "result" /\ stt.result = stt.whisperOut
       /\ ~(stt.fallbackToOffline /\ stt.whisperUp)
             => stt.result = NoServiceAvailable

(* C9 amended: a cloud result below the acceptance threshold is never      *)
(* returned; transcribe completes with the offline backend's outcome (its  *)
(* result, or its error when its transcription fails) if that backend is   *)
(* enabled and available, and otherwise fails with the                     *)
(* no-service-available error.                                             *)
C9_LowConfidenceFallsBack ==
    (Transcribed /\ CloudRejected)
    => /\ stt.result # stt.cloudOut
       /\ stt.result.backend # "cloud"
       /\ (stt.fallbackToOffline /\ stt.whisperUp)
             => /\ stt.whisperOut.kind \in {"result", "error"}
                /\ stt.result = stt.whisperOut
       /\ ~(stt.fallbackToOffline /\ stt.whisperUp)
             => stt.result = NoServiceAvailable

(* C9 witness: the cloud backend answered below the threshold and the      *)
(* request returned an offline result of still lower confidence.           *)
C9_Witness ==
    /\ Transcribed /\ CloudRejected
    /\ stt.result.kind = "result" /\ stt.result.backend = "whisper"
    /\ stt.result.confidence < stt.cloudOut.confidence

(* C10: when the cloud backend reported available and its transcription    *)
(* failed, the offline backend is tried next, and transcribe fails only    *)
(* if the offline backend is unusable or fails too.                        *)
C10_CloudFailureAbsorbed ==
    (Transcribed /\ stt.cloudUp /\ stt.cloudOut.kind = "error")
    => /\ stt.fallbackToOffline => WhisperInvoked
       /\ stt.result.kind = "error"
             => \/ ~stt.fallbackToOffline
                \/ ~stt.whisperUp
                \/ stt.whisperOut.kind = "error"

(* The number of events e among the first k events of the request.         *)
CountEvents(e, k) == Cardinality({ i \in 1..k : stt.events[i] = e })

(* The number of transcriptions of a backend in flight after k events.     *)
InFlight(backend, k) ==
    CountEvents(backend \o ".transcribe", k) - CountEvents(backend \o ".transcribe.end", k)

(* C11: within one transcribe request the backends are tried in priority   *)
(* order and never concurrently: at no time are two backend                *)
(* transcriptions in flight, the offline transcription starts only after   *)
(* the cloud backend was asked for its availability and its attempt, if    *)
(* any, has finished, and the cloud transcription never starts after the   *)
(* offline backend was consulted.                                          *)
C11_BackendsInPriorityOrderNeverConcurrent ==
    \A k \in 1..Len(stt.events) :
        /\ InFlight("cloud", k) + InFlight("whisper", k) \in {0, 1}
        /\ stt.events[k] = "whisper.transcribe"
              => /\ stt.events[1] = "cloud.isAvailable"
                 /\ InFlight("cloud", k) = 0
                 /\ stt.cloudUp => CountEvents("cloud.transcribe.end", k) = 1
        /\ stt.events[k] = "cloud.transcribe"
              => /\ CountEvents("whisper.isAvailable", k) = 0
                 /\ CountEvents("whisper.transcribe", k) = 0

(* C11 witness: a request that tried the cloud backend, got a result below *)
(* the threshold, and then completed the offline transcription.            *)
C11_Witness ==
    /\ Transcribed
    /\ stt.events = <<"cloud.isAvailable", "cloud.transcribe", "cloud.transcribe.end",
                      "whisper.isAvailable", "whisper.transcribe", "whisper.transcribe.end">>

(***************************************************************************)
(* Claims C12-C13: the language of a call.                                 *)
(***************************************************************************)

(* C12: speechToText resolves the target language as the explicit          *)
(* language argument if given, otherwise the currentLanguage of the        *)
(* session's context if there is one, otherwise the configured default,    *)
(* and the recognition service is invoked with that language.              *)
C12_SpeechLanguageResolution ==
    [][\A c \in BagToSet(pending') :
          CopiesIn(c, pending') > CopiesIn(c, pending)
          => c.lang = (IF c.arg # NoLang THEN c.arg
                       ELSE IF c.sid \in DOMAIN contexts THEN contexts[c.sid].currentLanguage
                       ELSE DefaultLanguage)]_vars

C14_SwitchWithoutContextIsNoOp ==
    [][(/\ last'.op = "switchInputMode"
        /\ <<last, contexts>>' # <<last, contexts>>
        /\ last'.sid \notin DOMAIN contexts)
       => /\ last'.res = "false"
          /\ contexts' = contexts]_vars

(* C14 witness: switchInputMode returned false for a session without       *)
(* context while the other session has one.                                *)
C14_Witness ==
    /\ last.op = "switchInputMode" /\ last.res = "false"
    /\ ~last.pre.exists /\ ~HasContext(last.sid)
    /\ \E s \in DOMAIN contexts : s # last.sid

(* C15: processText never raises a fallback-eligible error and never sets  *)
(* fallbackSuggested, whatever the session's failureCount and mode, and    *)
(* each processText call on a session with a context updates               *)
(* lastInteraction, increments totalInteractions by 1 and appends one      *)
(* history entry.                                                          *)
C15_TextOperationsUpdateWithoutFallback ==
    [][(last'.op = "processText" /\ <<last, contexts>>' # <<last, contexts>>)
       => /\ last'.res \in {"ok", "emptyError"}
          /\ ~last'.sug.shouldSuggestFallback
          /\ \A s \in (DOMAIN contexts) \cap (DOMAIN contexts') :
                contexts'[s].fallbackSuggested = contexts[s].fallbackSuggested
          /\ last'.sid \in DOMAIN contexts
                => LET old == contexts[last'.sid]
                       new == contexts'[last'.sid]
                   IN  /\ new.lastInteraction = now
                       /\ new.totalInteractions = old.totalInteractions + 1
                       /\ Len(new.conversationHistory) =
                             IF Len(old.conversationHistory) < HistoryCap
                             THEN Len(old.conversationHistory) + 1 ELSE HistoryCap
                       /\ new.conversationHistory[Len(new.conversationHistory)].timestamp = now
                       /\ new.conversationHistory[Len(new.conversationHistory)].inputMode = "text"]_vars

(* C16: getFallbackSuggestion is read-only: it returns null for a session  *)
(* without context, otherwise a suggestion whose shouldSuggestFallback is  *)
(* true exactly when fallback is enabled, failureCount >=                  *)
(* maxFailuresBeforeFallback, inputMode is voice and fallbackSuggested is  *)
(* false; it changes no field of any context.                              *)
C16_FallbackSuggestionReadOnly ==
    [][(last'.op = "getFallbackSuggestion" /\ <<last, contexts>>' # <<last, contexts>>)
       => /\ contexts' = contexts
          /\ IF last'.sid \notin DOMAIN contexts
             THEN last'.res = "null"
             ELSE /\ last'.res = "suggestion"
                  /\ last'.sug.failureCount = contexts[last'.sid].failureCount
                  /\ last'.sug.shouldSuggestFallback
                        <=> /\ config.fallbackToText
                            /\ contexts[last'.sid].failureCount >= MaxFailuresBeforeFallback
                            /\ contexts[last'.sid].inputMode = "voice"
                            /\ ~contexts[last'.sid].fallbackSuggested]_vars

(* C16 witness: getFallbackSuggestion answered that the fallback should    *)
(* be suggested, and the context still has fallbackSuggested = false.      *)
C16_Witness ==
    /\ last.op = "getFallbackSuggestion" /\ last.res = "suggestion"
    /\ last.sug.shouldSuggestFallback
    /\ HasContext(last.sid) /\ ~contexts[last.sid].fallbackSuggested

(* C17: the expiry sweep removes exactly the sessions whose                *)
(* lastInteraction is older than now minus the configured timeout, leaves  *)
(* every remaining context unchanged, and returns the number of contexts   *)
(* removed.                                                                *)
C17_SweepRemovesExactlyStale ==
    [][(last'.op = "cleanupExpiredContexts" /\ <<last, contexts>>' # <<last, contexts>>)
       => /\ DOMAIN contexts' =
                { s \in DOMAIN contexts :
                     ~(contexts[s].lastInteraction < now - ContextTimeoutMinutes) }
          /\ \A s \in DOMAIN contexts' : contexts'[s] = contexts[s]
          /\ last'.count = Cardinality(DOMAIN contexts) - Cardinality(DOMAIN contexts')]_vars

(* C17 witness: a sweep removed one of two contexts and kept the other.    *)
C17_Witness ==
    /\ last.op = "cleanupExpiredContexts" /\ last.count = 1
    /\ Cardinality(DOMAIN contexts) = 1
    /\ \A s \in DOMAIN contexts : now - contexts[s].lastInteraction \in 1..ContextTimeoutMinutes

(* C18: a context, once created, stays in the registry until a             *)
(* clearContext for its id or an expiry sweep that finds it stale: no      *)
(* other operation removes a context.                                      *)
C18_ContextStaysUntilClearedOrExpired ==
    [][\A s \in DOMAIN contexts :
          s \notin DOMAIN contexts'
          => \/ last'.op = "clearContext" /\ last'.sid = s
             \/ /\ last'.op = "cleanupExpiredContexts"
                /\ now - contexts[s].lastInteraction > ContextTimeoutMinutes]_vars

(* C18 witness: more than the timeout after its creation a context is      *)
(* still there, after a failed speechToText on it and a sweep.             *)
C18_Witness ==
    /\ last.op = "cleanupExpiredContexts" /\ last.count = 0
    /\ now > ContextTimeoutMinutes
    /\ \E s \in DOMAIN contexts :
          /\ contexts[s].failureCount > 0
          /\ log[s][1].timestamp = 0

(* C19: contexts are created only by setContext, and only when context     *)
(* preservation is enabled; speechToText, processText, switchInputMode,    *)
(* getFallbackSuggestion and markFallbackSuggested addressed to a session  *)
(* without context create none and complete as a stateless call does,      *)
(* without fallback recommendation; with preserveContext = false the       *)
(* registry is always empty.                                               *)
C19_ContextsOnlyFromSetContext ==
    [][/\ \A s \in (DOMAIN contexts') \ (DOMAIN contexts) :
             last'.op = "setContext" /\ last'.sid = s /\ config.preserveContext
       /\ ~config.preserveContext => DOMAIN contexts' = {}
       /\ (/\ last'.op \in {"speechToText", "processText", "switchInputMode",
                            "getFallbackSuggestion", "markFallbackSuggested"}
           /\ <<last, contexts>>' # <<last, contexts>>
           /\ last'.sid \notin DOMAIN contexts)
          => /\ contexts' = contexts
             /\ ~last'.sug.shouldSuggestFallback
             /\ last'.op = "speechToText" => last'.res \in {"ok", "error", "disabled"}
             /\ last'.op = "processText" =>
                   \/ last'.res = "emptyError"
                   \/ /\ last'.res = "ok"
                      /\ last'.text = Trim(last'.input.text)
                      /\ last'.lang = DefaultLanguage
             /\ last'.op = "switchInputMode" => last'.res = "false"
             /\ last'.op = "getFallbackSuggestion" => last'.res = "null"
             /\ last'.op = "markFallbackSuggested" => last'.res = "void"]_vars

(* C19 witness: with context preservation enabled, a speechToText call     *)
(* failed for a session whose context had been cleared, and the registry   *)
(* is empty.                                                               *)
C19_Witness ==
    /\ config.preserveContext
    /\ last.op = "speechToText" /\ last.res = "error" /\ last.sid = TheSession
    /\ ~last.pre.exists
    /\ DOMAIN contexts = {}

(* C20: every operation tied to a session that completes, whether it       *)
(* succeeds or fails, leaves the lastInteraction of the session's context  *)
(* at the current time: setContext, speechToText (also when voice input    *)
(* is disabled), processText (also the empty-text failure) and             *)
(* switchInputMode.                                                        *)
C20_LastInteractionAlwaysUpdated ==
    [][(/\ last'.op \in {"setContext", "speechToText", "processText", "switchInputMode"}
        /\ <<last, contexts>>' # <<last, contexts>>
        /\ last'.sid \in DOMAIN contexts')
       => contexts'[last'.sid].lastInteraction = now]_vars

(* C21: while a session's context exists its totalInteractions never       *)
(* decreases, and setContext, each completed speechToText (resolved,       *)
(* rejected or refused) and each processText on the session increase it    *)
(* by exactly 1.                                                           *)
C21_TotalInteractionsCountsEveryCall ==
    [][/\ \A s \in (DOMAIN contexts) \cap (DOMAIN contexts') :
             contexts'[s].totalInteractions >= contexts[s].totalInteractions
       /\ (/\ last'.op \in {"setContext", "speechToText", "processText"}
           /\ <<last, contexts>>' # <<last, contexts>>
           /\ last'.sid \in DOMAIN contexts)
          => /\ last'.sid \in DOMAIN contexts'
             /\ contexts'[last'.sid].totalInteractions =
                   contexts[last'.sid].totalInteractions + 1]_vars

(* C22: an operation addressed to one session (setContext, speechToText,   *)
(* processText, switchInputMode, markFallbackSuggested, clearContext)      *)
(* leaves the context of every other session as it was, whatever calls     *)
(* are in flight; only cleanupExpiredContexts changes more than one        *)
(* session in a step.                                                      *)
C22_SessionIsolation ==
    [][LET Same(s) == /\ (s \in DOMAIN contexts) = (s \in DOMAIN contexts')
                      /\ s \in DOMAIN contexts => contexts'[s] = contexts[s]
       IN  /\ (/\ last'.op \in {"setContext", "speechToText", "processText", "switchInputMode",
                                "markFallbackSuggested", "clearContext"}
               /\ <<last, contexts>>' # <<last, contexts>>)
              => \A s \in Sessions \ {last'.sid} : Same(s)
           /\ Cardinality({ s \in Sessions : ~Same(s) }) > 1
                 => last'.op = "cleanupExpiredContexts"]_vars

(* C22 witness: a speechToText call on one session was rejected and        *)
(* counted on its context while the other session had a context of its     *)
(* own, created before the call was made.                                  *)
C22_Witness ==
    /\ last.op = "speechToText" /\ last.res = "error" /\ last.sid = "s1"
    /\ DOMAIN contexts = Sessions
    /\ contexts["s1"].failureCount = 1
    /\ contexts["s2"].failureCount = 0
    /\ contexts["s2"].totalInteractions = 1

(* C23: with calls on one session overlapping (speechToText suspended at   *)
(* its backend call while setContext, switchInputMode, processText and     *)
(* other speechToText calls run), failureCount is never negative, the      *)
(* history holds at most 10 entries and is exactly the most recent ones    *)
(* of all the entries written since the context was created, and every     *)
(* completed call of the four operations adds exactly 1 to                 *)
(* totalInteractions.                                                      *)
C23_ConcurrentUpdatesAtomic ==
    [][/\ \A s \in DOMAIN contexts' :
             /\ contexts'[s].failureCount >= 0
             /\ Len(contexts'[s].conversationHistory) <= HistoryCap
             /\ contexts'[s].conversationHistory = SliceLast(log'[s])
       /\ (/\ last'.op \in {"setContext", "speechToText", "processText", "switchInputMode"}
           /\ <<last, contexts>>' # <<last, contexts>>
           /\ last'.sid \in (DOMAIN contexts) \cap (DOMAIN contexts'))
          => contexts'[last'.sid].totalInteractions =
                contexts[last'.sid].totalInteractions + 1]_vars

(* C24: every speechToText call eventually completes, and it completes     *)
(* with exactly one outcome, a result or an error; the call changes no     *)
(* context while it is suspended, and at its completion the context of     *)
(* its session receives exactly one update: one on success or one on       *)
(* failure, also when the failure is the refusal of a disabled voice       *)
(* input.                                                                  *)
C24_SpeechCallCompletesOnceWithOneUpdate ==
    /\ (pending # EmptyBag) ~> (pending = EmptyBag)
    /\ [][/\ BagCardinality(pending') > BagCardinality(pending) => contexts' = contexts
          /\ (/\ last'.op = "speechToText"
              /\ BagCardinality(pending') <= BagCardinality(pending)
              /\ <<last, contexts, pending>>' # <<last, contexts, pending>>)
             => /\ last'.res \in {"ok", "error", "fallbackError", "disabled"}
                /\ BagCardinality(pending') =
                      BagCardinality(pending) - (IF last'.res = "disabled" THEN 0 ELSE 1)
                /\ last'.sid \in DOMAIN contexts
                      => LET old == contexts[last'.sid]
                             new == contexts'[last'.sid]
                         IN  /\ new.totalInteractions = old.totalInteractions + 1
                             /\ new.conversationHistory =
                                   SliceLast(Append(old.conversationHistory,
                                       HistoryEntry(now, "voice", last'.res = "ok",
                                                    new.currentLanguage)))]_vars

(* C25: textToSpeech, whether it succeeds or fails, leaves the session     *)
(* registry and every field of every context unchanged, and what it        *)
(* settles with is exactly what the synthesis cascade settled with.        *)
C25_TextToSpeechPassThrough ==
    [][(last'.op = "textToSpeech" /\ <<last, contexts>>' # <<last, contexts>>)
       => /\ contexts' = contexts
          /\ last'.res \in {"ok", "error"}
          /\ last'.text = last'.input.text]_vars

(* C25, amended: textToSpeech leaves the session registry and every        *)
(* field of every context unchanged; with voice output enabled it settles  *)
(* with exactly what the synthesis cascade settled with, its audio or its  *)
(* error; with voice output disabled it fails with its own error and the   *)
(* cascade is not consulted.                                               *)
C25_TextToSpeechPassThroughWhenEnabled ==
    [][(last'.op = "textToSpeech" /\ <<last, contexts>>' # <<last, contexts>>)
       => /\ contexts' = contexts
          /\ pending' = pending
          /\ IF config.enableVoiceOutput
             THEN /\ last'.res \in {"ok", "error"}
                  /\ last'.res = "ok" <=> last'.input.text = Synthesized(TRUE)
                  /\ last'.text = last'.input.text
             ELSE /\ last'.res = "disabled"
                  /\ last'.input = NoInput
                  /\ last'.text \notin {Synthesized(TRUE), Synthesized(FALSE)}]_vars

(* C25 witness: the cascade failed and textToSpeech failed with its error  *)
(* while the session had a context with one counted failure and a call in  *)
(* flight.                                                                 *)
C25_Witness ==
    /\ last.op = "textToSpeech" /\ last.res = "error"
    /\ last.text = Synthesized(FALSE)
    /\ HasContext(TheSession)
    /\ contexts[TheSession].failureCount = 1
    /\ contexts[TheSession].totalInteractions = 2
    /\ pending # EmptyBag

(* The input of the synthesize call in progress, or of the last one,       *)
(* passes both validations.                                                *)
SynthInputValid ==
    Len(Trim(tts.text)) > 0 /\ tts.language \in TtsSupportedLanguages

(* C26: synthesize with empty or whitespace-only text, or with a language  *)
(* outside the supported set, fails with a validation error before any     *)
(* backend is consulted: it never suspends and no backend method was       *)
(* called.                                                                 *)
C26_InvalidInputFailsBeforeBackends ==
    (tts.pc # "idle" /\ ~SynthInputValid)
    => /\ tts.pc = "done"
       /\ tts.result = IF Len(Trim(tts.text)) = 0 THEN TextCannotBeEmpty
                       ELSE LanguageNotSupported
       /\ tts.events = <<>>

(* C26 witness: a call with an unsupported language and one with only      *)
(* blanks have failed under a configuration whose cascade starts with the  *)
(* cloud provider.                                                         *)
C26_Witness ==
    /\ tts.pc = "done" /\ ~tts.preferLocalTTS /\ tts.enableCloudTTS
    /\ \/ tts.language = "fr" /\ tts.text = <<"a">> /\ tts.result = LanguageNotSupported
       \/ tts.language = "hi" /\ tts.text = <<" ">> /\ tts.result = TextCannotBeEmpty

(* The backend the selection order names for the request, given what       *)
(* cloudProvider.isAvailable answered.                                     *)
SelectedBackend ==
    IF tts.preferLocalTTS /\ tts.language \in LocalSupportedLanguages THEN "local"
    ELSE IF tts.enableCloudTTS /\ tts.cloudUp = "up" THEN "cloud"
    ELSE IF tts.language \in LocalSupportedLanguages THEN "local"
    ELSE "none"

(* How many times the backend method k was called for the request.         *)
SynthCalls(k) == Cardinality({ i \in DOMAIN tts.events : tts.events[i] = k })

(* C27: for valid input the backend that synthesizes is the local engine   *)
(* if it is preferred and supports the language, else the cloud provider   *)
(* if it is enabled and reachable, else the local engine if it supports    *)
(* the language, else the call fails with the no-engine error; at most one *)
(* backend synthesizes per call, and when the preferred local engine is    *)
(* used the cloud provider is not invoked at all.                          *)
C27_SynthesisSelectionOrder ==
    /\ SynthCalls("local.synthesize")
          + SynthCalls("cloud.synthesize") <= 1
    /\ (tts.preferLocalTTS /\ tts.language \in LocalSupportedLanguages)
          => /\ SynthCalls("cloud.isAvailable") = 0
             /\ SynthCalls("cloud.synthesize") = 0
    /\ (tts.pc = "done" /\ SynthInputValid)
          => /\ SelectedBackend = "none" <=> tts.result = NoEngineAvailable
             /\ SelectedBackend = "local"
                   => /\ tts.result \in {TtsAudio("local"), LocalSynthesisFailed}
                      /\ SynthCalls("local.synthesize") = 1
             /\ SelectedBackend = "cloud"
                   => /\ tts.result \in {TtsAudio("cloud"), CloudSynthesisFailed}
                      /\ SynthCalls("cloud.synthesize") = 1

(* C27 witness: the local engine is not preferred, the cloud provider is   *)
(* enabled but answered that it is not available, and the local engine     *)
(* synthesized.                                                            *)
C27_Witness ==
    /\ tts.pc = "done" /\ ~tts.preferLocalTTS /\ tts.enableCloudTTS
    /\ tts.cloudUp = "down" /\ tts.language = "hi"
    /\ tts.result = TtsAudio("local")
    /\ tts.events = <<"cloud.isAvailable", "local.isLanguageSupported", "local.synthesize">>

(* C28: when the cloud provider was selected and its synthesize failed,    *)
(* and the local engine supports the language, synthesize returns the      *)
(* audio of the local engine instead of failing.                           *)
C28_SelectedBackendFailureAbsorbed ==
    (tts.pc = "done" /\ tts.rejected = "cloud" /\ tts.language \in LocalSupportedLanguages)
    => tts.result = TtsAudio("local")

(* The rules of validation a payload violates, as the claim states them.   *)
ViolatedRules(blob, maxFileSize) ==
    (IF blob.size < MinAudioSize THEN {"minimum size"} ELSE {})
    \cup (IF blob.size > maxFileSize THEN {"maximum size"} ELSE {})
    \cup (IF Len(blob.type) = 2 /\ blob.type[1] = "audio" THEN {} ELSE {"media type"})

(* C29: validate returns a result for every payload, with isValid true     *)
(* exactly when the size is at least 1024 bytes, at most the configured    *)
(* maximum, and the media type is an audio type; it reports one error per  *)
(* violated rule, and applied again to the same payload it returns the     *)
(* same result.                                                            *)
C29_ValidateIsTotalAndDeterministic ==
    \A i \in DOMAIN audio.validations :
       LET v == audio.validations[i]
           broken == ViolatedRules(audio.blob, audio.maxFileSize)
       IN  /\ v.isValid \in BOOLEAN
           /\ v.isValid <=> broken = {}
           /\ Len(v.errors) = Cardinality(broken)
           /\ v = audio.validations[1]

(* C29 witness: a payload that violates the three rules at once, under a   *)
(* maximum below the minimum, was validated twice.                         *)
C29_Witness ==
    /\ Len(audio.validations) = 2
    /\ audio.blob = [size |-> 1023, type |-> <<"text", "plain">>]
    /\ audio.maxFileSize < MinAudioSize
    /\ Len(audio.validations[2].errors) = 3

(* C30: for every level the output of compress is at or below the target   *)
(* size of that level, bitrate * 1000 * 10 / 8 bytes; at level 1, 10000    *)
(* bytes for a payload of 100 KB.                                          *)
C30_CompressedWithinTargetSize ==
    audio.level # 0 => audio.out.size <= GetTargetSize(audio.level)

C32_CompressNoOpCases ==
    audio.level # 0 =>
        /\ audio.out.size \in Nat
        /\ (\/ ~audio.enableCompression
            \/ audio.blob.size <= (Bitrate[audio.level] * 1000 * 10) \div 8
            \/ ~audio.readOk)
           => audio.out = audio.blob

(* C32 witness: a payload above the target of level 1 whose reading        *)
(* failed came back as it was.                                             *)
C32_Witness ==
    /\ audio.via = "compressAudio" /\ audio.level = 1 /\ audio.enableCompression
    /\ audio.blob.size = 102400 /\ ~audio.readOk
    /\ audio.out = audio.blob

SetContextStep ==
    LET s == last'.sid
        e == HistoryEntry(now, last'.mode, TRUE, last'.lang)
    IN  /\ (last'.op = "setContext" /\ <<last, contexts>>' # <<last, contexts>>) =>
           /\ s \in DOMAIN contexts'
           /\ contexts'[s].currentLanguage = last'.lang
           /\ contexts'[s].inputMode = last'.mode
           /\ IF s \in DOMAIN contexts
              THEN /\ contexts'[s].failureCount = contexts[s].failureCount
                   /\ contexts'[s].fallbackSuggested = contexts[s].fallbackSuggested
                   /\ contexts'[s].totalInteractions = contexts[s].totalInteractions + 1
                   /\ contexts'[s].conversationHistory =
                          SliceLast(Append(contexts[s].conversationHistory, e))
              ELSE /\ contexts'[s].failureCount = 0
                   /\ contexts'[s].fallbackSuggested = FALSE
                   /\ contexts'[s].totalInteractions = 1
                   /\ contexts'[s].conversationHistory = <<e>>
        /\ (last'.op = "clearContext" /\ <<last, contexts>>' # <<last, contexts>>) =>
              s \notin DOMAIN contexts'

(* C34 as stated: the first setContext of a session creates a context with *)
(* the given language and mode, no failures, one interaction, no           *)
(* recommendation given and one successful history entry; a later one      *)
(* overwrites language and mode, keeps failureCount and fallbackSuggested, *)
(* counts one interaction and appends one entry; clearContext leaves the   *)
(* session without context.                                                *)
C34_SetContextCreatesOrUpdates == [][SetContextStep]_vars

(* C34 amended: the same, when context preservation is enabled.            *)
C34_SetContextCreatesOrUpdatesWhenPreserving ==
    [][config.preserveContext => SetContextStep]_vars

(* C34 witness: setContext on a session with failures and a recommendation *)
(* given kept both and counted one more interaction.                       *)
C34_Witness ==
    /\ last.op = "setContext" /\ last.pre.exists
    /\ last.pre.failureCount > 0 /\ last.pre.fallbackSuggested
    /\ contexts[last.sid].failureCount = last.pre.failureCount
    /\ contexts[last.sid].fallbackSuggested
    /\ contexts[last.sid].totalInteractions = last.pre.totalInteractions + 1

(* C35: a failing speechToText carries a fallback recommendation only if   *)
(* the inputMode of the addressed session is voice at the time of the      *)
(* failure: for a session in text mode it raises no fallback-eligible      *)
(* error and leaves fallbackSuggested as it was, as getFallbackSuggestion  *)
(* would recommend nothing.                                                *)
C35_FallbackOnlyInVoiceMode ==
    [][(/\ last'.op = "speechToText"
        /\ last'.res \in {"error", "fallbackError"}
        /\ <<last, contexts>>' # <<last, contexts>>
        /\ BagCardinality(pending') < BagCardinality(pending)
        /\ HasContext(last'.sid)
        /\ contexts[last'.sid].inputMode = "text")
       => /\ last'.res = "error"
          /\ ~last'.sug.shouldSuggestFallback
          /\ contexts'[last'.sid].fallbackSuggested = contexts[last'.sid].fallbackSuggested
          /\ ~ShouldSuggestFallback(contexts'[last'.sid])]_vars

(* C36: a session removed by clearContext or by the expiry sweep while a   *)
(* speechToText call for it awaits its backend is not resurrected when the *)
(* call completes, nor by a processText addressed to it: the completion    *)
(* creates no context and raises no fallback-eligible error, and a session *)
(* enters the registry only by setContext.                                 *)
C36_RemovedSessionNotResurrected ==
    [][/\ (/\ last'.op \in {"speechToText", "processText"}
           /\ <<last, contexts, pending>>' # <<last, contexts, pending>>
           /\ BagCardinality(pending') <= BagCardinality(pending)
           /\ last'.sid \notin DOMAIN contexts)
          => /\ contexts' = contexts
             /\ last'.res # "fallbackError"
             /\ ~last'.sug.shouldSuggestFallback
       /\ \A s \in (DOMAIN contexts') \ (DOMAIN contexts) :
             last'.op = "setContext" /\ last'.sid = s]_vars

(* C36 witness: a speechToText call that started on a session with a       *)
(* context has failed after the context was removed, and the session has   *)
(* none.                                                                   *)
C36_Witness ==
    /\ last.op = "speechToText" /\ last.res = "error" /\ last.known
    /\ ~last.pre.exists
    /\ last.sid \notin DOMAIN contexts

(* C37: when several failing speechToText calls on the same voice-mode     *)
(* session await the service at the same time, each failure adds one to    *)
(* failureCount, and of the overlapping calls the one that raises the      *)
(* fallback-eligible error is the one whose completion brings failureCount *)
(* to maxFailuresBeforeFallback, and no other.                             *)
C37_OverlappingFailuresRaiseOnce ==
    [][(/\ last'.op = "speechToText"
        /\ last'.res \in {"error", "fallbackError"}
        /\ BagCardinality(pending) >= 2
        /\ BagCardinality(pending') < BagCardinality(pending)
        /\ config.fallbackToText
        /\ HasContext(last'.sid)
        /\ contexts[last'.sid].inputMode = "voice")
       => /\ contexts'[last'.sid].failureCount = contexts[last'.sid].failureCount + 1
          /\ last'.res = "fallbackError"
                <=> contexts'[last'.sid].failureCount = MaxFailuresBeforeFallback]_vars

(* What C38 says of one step taken by a session whose context has          *)
(* fallbackSuggested set; `removable` tells whether the context may be     *)
(* removed by the step.                                                    *)
MarkedStep(removable) ==
    /\ \A s \in DOMAIN contexts :
          contexts[s].fallbackSuggested =>
             /\ ~(last'.op = "switchInputMode" /\ last'.sid = s
                     /\ <<last, contexts>>' # <<last, contexts>>)
                => IF s \in DOMAIN contexts'
                   THEN contexts'[s].fallbackSuggested
                   ELSE removable
             /\ (/\ last'.op = "speechToText" /\ last'.sid = s
                 /\ last'.res \in {"error", "fallbackError"}
                 /\ BagCardinality(pending') < BagCardinality(pending))
                => /\ last'.res = "error"
                   /\ ~last'.sug.shouldSuggestFallback
             /\ (last'.op = "getFallbackSuggestion" /\ last'.sid = s)
                => ~last'.sug.shouldSuggestFallback
    /\ (/\ last'.op = "markFallbackSuggested"
        /\ last' # last
        /\ last'.sid \notin DOMAIN contexts)
       => contexts' = contexts

(* C38 as stated: once fallbackSuggested is set for a session it stays set *)
(* through every operation but switchInputMode of that session, however    *)
(* large failureCount grows; meanwhile no failed speechToText carries a    *)
(* recommendation and getFallbackSuggestion answers false;                 *)
(* markFallbackSuggested on an unknown session changes nothing.            *)
C38_MarkedUntilSwitch == [][MarkedStep(FALSE)]_vars

(* C38 amended: the same, until switchInputMode of that session or the     *)
(* removal of its context.                                                 *)
C38_MarkedUntilSwitchOrRemoval == [][MarkedStep(TRUE)]_vars

(* C38 witness: a session that never raised a recommendation was marked,   *)
(* and its third failure in a row came back as the plain error.            *)
C38_Witness ==
    /\ last.op = "speechToText" /\ last.res = "error"
    /\ last.pre.exists /\ last.pre.fallbackSuggested
    /\ last.pre.failureCount >= MaxFailuresBeforeFallback
    /\ last.pre.inputMode = "voice" /\ config.fallbackToText
    /\ flags[last.sid] = 0 /\ prior[last.sid] = 0
    /\ contexts[last.sid].fallbackSuggested

(* The cases in which C39 counts a failing call as not fallback-eligible:  *)
(* no sessionId, an unknown session, fallback disabled, the threshold not  *)
(* reached by this failure, or the recommendation already given.           *)
NotFallbackEligible(sid) ==
    \/ sid = NoSession
    \/ ~HasContext(sid)
    \/ ~config.fallbackToText
    \/ contexts[sid].failureCount + 1 < MaxFailuresBeforeFallback
    \/ contexts[sid].fallbackSuggested

====
